---- MODULE Spec2Model ----
(***************************************************************************)
(* Model of species.data.database.Database: the HDF5 store, the ingestion  *)
(* operations that write it and the posterior accessors that read it.      *)
(*                                                                         *)
(* The store is a map from paths (tuples of path components) to nodes.     *)
(* A numpy array is a record [shape, flat]: its shape and its elements in  *)
(* C (row-major) order, so that slicing and reshaping are index arithmetic *)
(* as in numpy.  Optional arguments are <<>> (None) or <<v>>.              *)
(***************************************************************************)
EXTENDS Integers, Sequences, FiniteSets, TLC

VARIABLES store, handles, outcome, pc, loc

vars == <<store, handles, outcome, pc, loc>>

(***************************************************************************)
(* Bounds of the model.                                                    *)
(***************************************************************************)
MaxVal == 1          \* sample values are drawn from 0..MaxVal
MaxLnProb == 1       \* the largest log-probability of a sample set
MaxBurnin == 3       \* burnin arguments are drawn from 0..MaxBurnin
MaxHandles == 1      \* open handles are counted up to this number
MaxWalkers == 2      \* 3-D sample arrays have 1..MaxWalkers walkers,
MaxSteps == 2        \* 1..MaxSteps steps and one parameter
MaxRows == 2         \* 2-D sample arrays have 1..MaxRows rows
MaxParams == 2       \* and 1..MaxParams columns
MaxRandom == 1       \* the accessors draw 1..MaxRandom random samples
MaxCurve == 4        \* filter curves have 1..MaxCurve rows
MaxWavel == 3        \* with wavelengths drawn from 1..MaxWavel
MaxPhot == 2         \* a list of magnitudes has 0..MaxPhot pairs
MaxIso == 3          \* an isochrone table has 1..MaxIso rows
MaxAge == 2          \* with ages drawn from 1..MaxAge

NKnots == 15         \* the knots of a free pressure-temperature profile

Tags == {"fit1"}

(***************************************************************************)
(* numpy arrays                                                            *)
(***************************************************************************)
RECURSIVE Prod(_)
Prod(shape) == IF shape = <<>> THEN 1 ELSE Head(shape) * Prod(Tail(shape))

NdArray(shape, flat) == [shape |-> shape, flat |-> flat]

NoData == NdArray(<<>>, <<>>)

Ndim(a) == Len(a.shape)

\* a[b:, ...] for b >= 0
SliceFrom(a, b) ==
    LET n == Head(a.shape)
        stride == Prod(Tail(a.shape))
        first == IF b >= n THEN n ELSE b
    IN  NdArray(<<n - first>> \o Tail(a.shape),
                SubSeq(a.flat, first * stride + 1, n * stride))

\* np.reshape(a, (-1, ncol)) is possible
CanReshape(a, ncol) == ncol > 0 /\ Len(a.flat) % ncol = 0

\* np.reshape(a, (-1, ncol))
Reshape(a, ncol) == NdArray(<<Len(a.flat) \div ncol, ncol>>, a.flat)

\* np.reshape(a, -1)
Ravel(a) == NdArray(<<Len(a.flat)>>, a.flat)

\* a[i] of an array with at least one axis, i counted from 0
RowOf(a, i) ==
    LET stride == Prod(Tail(a.shape))
    IN  SubSeq(a.flat, i * stride + 1, (i + 1) * stride)

\* a[:, j] of a 2-D array, j counted from 0
ColumnOf(a, j) == [i \in 1..a.shape[1] |-> a.flat[(i - 1) * a.shape[2] + j + 1]]

\* a.argmax() of a non-empty array: the first index of the maximum
ArgMax(flat) ==
    CHOOSE k \in 1..Len(flat) :
        /\ \A j \in 1..Len(flat) : flat[j] <= flat[k]
        /\ \A j \in 1..(k - 1) : flat[j] < flat[k]

\* np.append(a, col[..., np.newaxis], axis=1) of a 2-D array
AppendColumn(a, col) ==
    LET n == a.shape[1]
        p == a.shape[2]
    IN  NdArray(<<n, p + 1>>,
                [k \in 1..(n * (p + 1)) |->
                    IF (k - 1) % (p + 1) = p
                    THEN col[((k - 1) \div (p + 1)) + 1]
                    ELSE a.flat[((k - 1) \div (p + 1)) * p + ((k - 1) % (p + 1)) + 1]])

(***************************************************************************)
(* The HDF5 file                                                           *)
(***************************************************************************)
NoAttrs == <<>>

Group == [kind |-> "group", data |-> NoData, attrs |-> NoAttrs]

Dataset(data) == [kind |-> "dataset", data |-> data, attrs |-> NoAttrs]

\* path in h5_file
Exists(s, p) == p \in DOMAIN s

\* del h5_file[path]: unlinks the node and everything below it
Del(s, p) == [q \in {r \in DOMAIN s : ~(Len(p) <= Len(r) /\ SubSeq(r, 1, Len(p)) = p)} |-> s[q]]

Ancestors(p) == {SubSeq(p, 1, k) : k \in 1..(Len(p) - 1)}

\* h5py refuses to create a node at an existing path or below a dataset
CanCreate(s, p) ==
    /\ ~Exists(s, p)
    /\ \A q \in Ancestors(p) : Exists(s, q) => s[q].kind = "group"

Put(s, p, node) ==
    [q \in DOMAIN s \cup Ancestors(p) \cup {p} |->
        IF q = p THEN node
        ELSE IF q \in DOMAIN s THEN s[q]
        ELSE Group]

\* h5_file.create_dataset(path, data=data), intermediate groups included
CreateDataset(s, p, data) == Put(s, p, Dataset(data))

\* dset.attrs[key] = value, on the attributes of one node
Set(attrs, key, value) ==
    [k \in DOMAIN attrs \cup {key} |-> IF k = key THEN value ELSE attrs[k]]

\* the node at path p with the attributes attrs
WithAttrs(s, p, attrs) == [s EXCEPT ![p].attrs = attrs]

\* dset.attrs[key] = value, on the file
SetAttr(s, p, key, value) == WithAttrs(s, p, Set(s[p].attrs, key, value))

\* numbered attribute names: parameter0, scaling1, ...
Key(base, i) == base \o ToString(i)

\* for i, item in enumerate(items): dset.attrs[f'{base}{i}'] = item
\* (the items from number i on)
SetNumbered(attrs, base, items, i) ==
    LET keys == {Key(base, j) : j \in i..(Len(items) - 1)}
    IN  [k \in DOMAIN attrs \cup keys |->
            IF k \in keys
            THEN items[(CHOOSE j \in i..(Len(items) - 1) : Key(base, j) = k) + 1]
            ELSE attrs[k]]

IsSome(opt) == opt # <<>>

SetOptional(attrs, key, opt) == IF IsSome(opt) THEN Set(attrs, key, opt[1]) ELSE attrs

FitPath(tag) == <<"results", "fit", tag>>
SamplesPath(tag) == <<"results", "fit", tag, "samples">>
LnProbPath(tag) == <<"results", "fit", tag, "ln_prob">>

EnsureGroup(s, p) == IF Exists(s, p) THEN s ELSE Put(s, p, Group)

\* what is stored under the path is left in place
KeepIfExists(s, p) == s

\* if path in h5_file: del h5_file[path]
DelIfExists(s, p) == IF Exists(s, p) THEN Del(s, p) ELSE s

(***************************************************************************)
(* add_samples                                                             *)
(***************************************************************************)
RECURSIVE SetScaling(_, _, _, _, _)
\* the loop of add_samples over modelpar: parameter{i} for every item, and
\* scaling{count_scaling} for the items that are spectrum labels; returns
\* the attributes and the final count_scaling
SetScaling(attrs, modelpar, spec_labels, i, count_scaling) ==
    IF i >= Len(modelpar) THEN [attrs |-> attrs, count |-> count_scaling]
    ELSE LET item == modelpar[i + 1]
             a1 == Set(attrs, Key("parameter", i), item)
             isLabel == \E k \in 1..Len(spec_labels) : spec_labels[k] = item
             a2 == IF isLabel THEN Set(a1, Key("scaling", count_scaling), item) ELSE a1
         IN  SetScaling(a2, modelpar, spec_labels, i + 1,
                        IF isLabel THEN count_scaling + 1 ELSE count_scaling)

\* emcee.autocorr.integrated_time returns one time per parameter of a 3-D
\* chain and a single time for a 2-D array
AutocorrSize(samples) == IF Ndim(samples) = 3 THEN samples.shape[3] ELSE 1

\* add_samples(sampler, samples, ln_prob, ln_evidence, mean_accept,
\*             spectrum, tag, modelpar, distance, spec_labels);
\* a.int_auto is the result of the autocorrelation estimate: <<>> when the
\* estimator raised AutocorrError, <<times>> otherwise
AddSamplesStore(s, a) ==
    LET p == SamplesPath(a.tag)
        s1 == EnsureGroup(s, <<"results">>)
        s2 == EnsureGroup(s1, <<"results", "fit">>)
        s3 == DelIfExists(s2, FitPath(a.tag))
        s4 == CreateDataset(s3, p, a.samples)
        s5 == CreateDataset(s4, LnProbPath(a.tag), a.ln_prob)
        a1 == Set(s5[p].attrs, "type", a.spectrum[1])
        a2 == Set(a1, "spectrum", a.spectrum[2])
        a3 == Set(a2, "n_param", Len(a.modelpar))
        a4 == Set(a3, "sampler", a.sampler)
        a5 == SetOptional(a4, "mean_accept", a.mean_accept)
        a6 == SetOptional(a5, "distance", a.distance)
        a7 == SetOptional(a6, "ln_evidence", a.ln_evidence)
        lp == SetScaling(a7, a.modelpar, a.spec_labels, 0, 0)
        a8 == Set(lp.attrs, "n_scaling", lp.count)
        a9 == IF IsSome(a.int_auto)
              THEN SetNumbered(a8, "autocorrelation", a.int_auto[1], 0)
              ELSE a8
    IN  WithAttrs(s5, p, a9)

(***************************************************************************)
(* Posterior accessors                                                     *)
(***************************************************************************)
\* what an operation leaves behind: the exception it raised ("none" when it
\* returned), the value it returned, its local arrays samples and ln_prob
\* as they were when it stopped, and whether the handle it opened with
\* h5py.File is still open
Result(raised, value, samples, ln_prob, leak) ==
    [raised |-> raised, value |-> value, samples |-> samples, ln_prob |-> ln_prob,
     leak |-> leak]

\* the operation returned: it has closed its handle
Return(value, samples, ln_prob) == Result("none", value, samples, ln_prob, FALSE)

\* an exception left a function that opened the file with
\* h5_file = h5py.File(...) before it reached h5_file.close()
Leak(raised, samples, ln_prob) == Result(raised, <<>>, samples, ln_prob, TRUE)

\* an exception left a "with h5py.File(...)" block, or was raised while the
\* function held no handle
Raise(raised, samples, ln_prob) == Result(raised, <<>>, samples, ln_prob, FALSE)

\* the dictionary built by: for i in range(n_param):
\*     d[dset.attrs[f'parameter{i}']] = values[i]
\* (a later index overwrites an earlier one of the same name), followed by
\* the copies of the distance and pt_smooth attributes
ParamDict(attrs, n_param, values) ==
    LET names == {attrs[Key("parameter", i)] : i \in 0..(n_param - 1)}
        last(name) == CHOOSE i \in 0..(n_param - 1) :
                         /\ attrs[Key("parameter", i)] = name
                         /\ \A j \in (i + 1)..(n_param - 1) :
                                attrs[Key("parameter", j)] # name
        extra == {k \in {"distance", "pt_smooth"} : k \in DOMAIN attrs}
    IN  [k \in names \cup extra |->
            IF k \in extra THEN attrs[k] ELSE values[last(k) + 1]]

HasParams(attrs, n_param) ==
    \A i \in 0..(n_param - 1) : Key("parameter", i) \in DOMAIN attrs

\* the n_param / nparam lookup at the head of every accessor
HasNParam(attrs) == "n_param" \in DOMAIN attrs \/ "nparam" \in DOMAIN attrs

NParam(attrs) == IF "n_param" \in DOMAIN attrs THEN attrs["n_param"] ELSE attrs["nparam"]

\* get_probable_sample(tag, burnin)
ProbableSample(s, tag, burnin) ==
    IF ~Exists(s, SamplesPath(tag)) \/ ~Exists(s, LnProbPath(tag)) THEN Leak("KeyError", NoData, NoData)
    ELSE
    LET dset == s[SamplesPath(tag)]
        samples0 == dset.data
        ln_prob0 == s[LnProbPath(tag)].data
    IN
    IF ~HasNParam(dset.attrs) THEN Leak("UnboundLocalError", NoData, NoData)
    ELSE
    LET n_param == NParam(dset.attrs) IN
    IF Ndim(samples0) = 3 /\ burnin > samples0.shape[1] THEN Leak("burnin", NoData, NoData)
    ELSE IF Ndim(samples0) = 3 /\ ~CanReshape(SliceFrom(samples0, burnin), n_param)
    THEN Leak("ValueError", NoData, NoData)
    ELSE
    LET samples == IF Ndim(samples0) = 3
                   THEN Reshape(SliceFrom(samples0, burnin), n_param)
                   ELSE samples0
        ln_prob == IF Ndim(samples0) = 3
                   THEN Ravel(SliceFrom(ln_prob0, burnin))
                   ELSE ln_prob0
    IN
    IF Len(ln_prob.flat) = 0 THEN Leak("ValueError", samples, ln_prob)
    ELSE
    LET index_max == ArgMax(ln_prob.flat) - 1 IN
    IF index_max >= samples.shape[1] THEN Leak("IndexError", samples, ln_prob)
    ELSE
    LET max_sample == RowOf(samples, index_max) IN
    IF ~HasParams(dset.attrs, n_param) THEN Leak("KeyError", samples, ln_prob)
    ELSE IF n_param > Len(max_sample) THEN Leak("IndexError", samples, ln_prob)
    ELSE Return(ParamDict(dset.attrs, n_param, max_sample), samples, ln_prob)

\* the k-th smallest element of a non-empty sequence, k counted from 1
KthSmallest(col, k) ==
    CHOOSE v \in {col[i] : i \in DOMAIN col} :
        /\ Cardinality({i \in DOMAIN col : col[i] < v}) < k
        /\ k <= Cardinality({i \in DOMAIN col : col[i] <= v})

NaN == 0 - 1

\* np.median(col), represented by twice its value so that the mean of the
\* two middle elements of an even-sized column stays an integer; the median
\* of an empty column is NaN
Median(col) ==
    LET n == Len(col) IN
    IF n = 0 THEN NaN
    ELSE KthSmallest(col, (n + 1) \div 2) + KthSmallest(col, (n + 2) \div 2)

\* get_median_sample(tag, burnin)
MedianSample(s, tag, burnin) ==
    IF ~Exists(s, SamplesPath(tag)) THEN Raise("KeyError", NoData, NoData)
    ELSE
    LET dset == s[SamplesPath(tag)]
        samples0 == dset.data
    IN
    IF ~HasNParam(dset.attrs) THEN Raise("UnboundLocalError", NoData, NoData)
    ELSE
    LET n_param == NParam(dset.attrs) IN
    IF Ndim(samples0) = 3 /\ burnin > samples0.shape[1] THEN Raise("burnin", NoData, NoData)
    ELSE IF Ndim(samples0) = 3 /\ ~CanReshape(SliceFrom(samples0, burnin), n_param)
    THEN Raise("ValueError", NoData, NoData)
    ELSE
    LET samples == IF Ndim(samples0) = 3
                   THEN Reshape(SliceFrom(samples0, burnin), n_param)
                   ELSE samples0
    IN
    IF ~HasParams(dset.attrs, n_param) THEN Raise("KeyError", samples, NoData)
    ELSE IF n_param > samples.shape[2] THEN Raise("IndexError", samples, NoData)
    ELSE Return(ParamDict(dset.attrs, n_param,
                          [i \in 1..n_param |-> Median(ColumnOf(samples, i - 1))]),
                samples, NoData)

(***************************************************************************)
(* add_retrieval                                                           *)
(***************************************************************************)
\* str[0:n]
StrPrefix(str, n) == SubSeq(str, 1, IF Len(str) < n THEN Len(str) ELSE n)

\* item in list
InList(item, list) == \E k \in 1..Len(list) : list[k] = item

\* count = 0
\* for i, item in enumerate(parameters):
\*     if item[0:6] == prefix: dset.attrs[f'{base}{count}'] = item; count += 1
\* (the items from number i on, with the count reached before them)
SetPrefixed(attrs, parameters, prefix, base, i, count) ==
    LET hits == {j \in i..(Len(parameters) - 1) : StrPrefix(parameters[j + 1], 6) = prefix}
        number(j) == count + Cardinality({h \in hits : h < j})
        keys == {Key(base, number(j)) : j \in hits}
    IN  [attrs |-> [k \in DOMAIN attrs \cup keys |->
                       IF k \in keys
                       THEN parameters[(CHOOSE j \in hits : Key(base, number(j)) = k) + 1]
                       ELSE attrs[k]],
         count |-> count + Cardinality(hits)]

\* samples[:, -1]
LastColumn(a) == NdArray(<<a.shape[1]>>, ColumnOf(a, a.shape[2] - 1))

\* samples[:, :-1]
DropLastColumn(a) ==
    LET n == a.shape[1]
        c == a.shape[2]
    IN  NdArray(<<n, c - 1>>,
                [k \in 1..(n * (c - 1)) |->
                    a.flat[((k - 1) \div (c - 1)) * c + ((k - 1) % (c - 1)) + 1]])

\* the first "with" block of add_retrieval: a.samples is the table read from
\* post_equal_weights.dat, a.parameters the list of params.json and
\* a.radtrans the record of radtrans.json.  Returns the store, the exception
\* raised ("none" if none) and the local array samples
RetrievalBase(s, a) ==
    LET p == SamplesPath(a.tag)
        rt == a.radtrans
        s1 == EnsureGroup(s, <<"results">>)
        s2 == EnsureGroup(s1, <<"results", "fit">>)
        s3 == DelIfExists(s2, FitPath(a.tag))
        s4 == CreateDataset(s3, LnProbPath(a.tag), LastColumn(a.samples))
        samples == DropLastColumn(a.samples)
    IN
    IF samples.shape[2] # Len(a.parameters)
    THEN [st |-> s4, raised |-> "ValueError", samples |-> samples]
    ELSE
    LET s5 == CreateDataset(s4, p, samples)
        a1 == Set(s5[p].attrs, "type", "model")
        a2 == Set(a1, "spectrum", "petitradtrans")
        a3 == Set(a2, "n_param", Len(a.parameters))
        a4 == Set(a3, "distance", rt.distance)
        a5 == SetNumbered(a4, "parameter", a.parameters, 0)
        sc == SetPrefixed(a5, a.parameters, "scaling_", "scaling", 0, 0)
        er == SetPrefixed(sc.attrs, a.parameters, "error_", "error", 0, 0)
        a6 == Set(er.attrs, "n_scaling", sc.count)
        a7 == Set(a6, "n_error", er.count)
        a8 == SetNumbered(a7, "line_species", rt.line_species, 0)
        a9 == SetNumbered(a8, "cloud_species", rt.cloud_species, 0)
        a10 == Set(a9, "n_line_species", Len(rt.line_species))
        a11 == Set(a10, "n_cloud_species", Len(rt.cloud_species))
        a12 == Set(a11, "scattering", rt.scattering)
        a13 == Set(a12, "pt_profile", rt.pt_profile)
        a14 == Set(a13, "chemistry", rt.chemistry)
        a15 == Set(a14, "wavel_min", rt.wavel_range[1])
        a16 == Set(a15, "wavel_max", rt.wavel_range[2])
        a17 == Set(a16, "quenching",
                   IF IsSome(rt.quenching) THEN rt.quenching[1] ELSE "None")
        a18 == SetOptional(a17, "pt_smooth", rt.pt_smooth)
    IN  [st |-> WithAttrs(s5, p, a18), raised |-> "none", samples |-> samples]

\* cloud_item[:-6].lower()
CloudName(cloud_item) ==
    LET base == SubSeq(cloud_item, 1, Len(cloud_item) - 6)
    IN  CASE base = "Fe" -> "fe"
          [] base = "MgSiO3" -> "mgsio3"
          [] OTHER -> base

\* the quench pressure is appended before the cloud fractions
RetrievalPassesQuenchFirst(a) ==
    LET clouds == SelectSeq(a.radtrans.cloud_species,
                            LAMBDA c : InList(CloudName(c) \o "_tau", a.parameters))
    IN  (IF a.radtrans.quenching = <<"diffusion">>
         THEN <<[kind |-> "quench", name |-> "log_p_quench"]>> ELSE <<>>)
        \o [k \in 1..Len(clouds) |->
               [kind |-> "cloud", name |-> CloudName(clouds[k]) \o "_fraction"]]
        \o (IF a.inc_teff THEN <<[kind |-> "teff", name |-> "teff"]>> ELSE <<>>)

\* the derived-column passes of add_retrieval in the order in which the
\* function runs them
RetrievalPasses(a) ==
    LET clouds == SelectSeq(a.radtrans.cloud_species,
                            LAMBDA c : InList(CloudName(c) \o "_tau", a.parameters))
    IN  [k \in 1..Len(clouds) |->
            [kind |-> "cloud", name |-> CloudName(clouds[k]) \o "_fraction"]]
        \o (IF a.radtrans.quenching = <<"diffusion">>
            THEN <<[kind |-> "quench", name |-> "log_p_quench"]>> ELSE <<>>)
        \o (IF a.inc_teff THEN <<[kind |-> "teff", name |-> "teff"]>> ELSE <<>>)

RECURSIVE SumSeq(_)
SumSeq(q) == IF q = <<>> THEN 0 ELSE Head(q) + SumSeq(Tail(q))

\* the value a forward model derives from one sample: the forward models
\* are external, a fixed function of the parameter values stands for them
DerivedValue(values) == SumSeq(values) % (MaxVal + 1)

\* retrieval_util.list_to_dict(parameters, samples[j, ]): the values of the
\* named parameters, in the order of the names
ListToDict(parameters, row) == SubSeq(row, 1, Len(parameters))

\* the column computed by a cloud-fraction or quench-pressure pass from the
\* local array samples
PassColumn(parameters, samples) ==
    [j \in 1..samples.shape[1] |->
        DerivedValue(ListToDict(parameters, RowOf(samples, j - 1)))]

\* the column computed by the teff pass: get_retrieval_spectra(random=None)
\* makes one spectrum for every stored sample
TeffColumn(s, tag) ==
    LET stored == s[SamplesPath(tag)].data
    IN  [j \in 1..stored.shape[1] |-> DerivedValue(RowOf(stored, j - 1))]

\* samples = np.append(np.asarray(h5_file[db_tag]), column, axis=1)
PassRead(s, tag, column) == AppendColumn(s[SamplesPath(tag)].data, column)

\* del h5_file[db_tag]
PassDelete(s, tag) == Del(s, SamplesPath(tag))

\* dset = h5_file.create_dataset(db_tag, data=samples)
PassCreate(s, tag, samples) == CreateDataset(s, SamplesPath(tag), samples)

\* the attributes are not carried over to the new dataset
PassCopyNothing(s, tag, dset_attrs) == s

\* for item in dset_attrs: dset.attrs[item] = dset_attrs[item]
PassCopy(s, tag, dset_attrs) ==
    WithAttrs(s, SamplesPath(tag),
              [k \in DOMAIN s[SamplesPath(tag)].attrs \cup DOMAIN dset_attrs |->
                  IF k \in DOMAIN dset_attrs THEN dset_attrs[k]
                  ELSE s[SamplesPath(tag)].attrs[k]])

\* n_param = dset_attrs['n_param'] + 1; dset.attrs['n_param'] = n_param
PassNParam(s, tag, dset_attrs) ==
    SetAttr(s, SamplesPath(tag), "n_param", dset_attrs["n_param"] + 1)

\* dset.attrs[f'parameter{n_param-1}'] = name
PassName(s, tag, dset_attrs, name) ==
    SetAttr(s, SamplesPath(tag), Key("parameter", dset_attrs["n_param"] + 1 - 1), name)

\* one "with" block that appends a derived column
AppendPass(s, tag, column, name) ==
    LET dset_attrs == s[SamplesPath(tag)].attrs
        samples == PassRead(s, tag, column)
        s1 == PassDelete(s, tag)
        s2 == PassCreate(s1, tag, samples)
        s3 == PassCopy(s2, tag, dset_attrs)
        s4 == PassNParam(s3, tag, dset_attrs)
    IN  PassName(s4, tag, dset_attrs, name)

\* the column of pass number k (counted from 1), computed in store s with
\* the local array samples
ColumnOfPass(s, a, pass, samples) ==
    IF pass.kind = "teff" THEN TeffColumn(s, a.tag)
    ELSE PassColumn(a.parameters, samples)

RECURSIVE RunPasses(_, _, _, _)
\* the passes from number k on; a.fail is the number of the pass whose
\* forward model raises an exception (0 when none does)
RunPasses(s, a, k, samples) ==
    IF k > Len(RetrievalPasses(a)) THEN [st |-> s, raised |-> "none", leak |-> FALSE]
    ELSE LET pass == RetrievalPasses(a)[k] IN
         IF a.fail = k
         THEN [st |-> s, raised |-> "forward-model", leak |-> pass.kind = "teff"]
         ELSE LET column == ColumnOfPass(s, a, pass, samples)
              IN  RunPasses(AppendPass(s, a.tag, column, pass.name), a, k + 1,
                            PassRead(s, a.tag, column))

\* add_retrieval(tag, output_folder, inc_teff) as a whole
AddRetrieval(s, a) ==
    LET base == RetrievalBase(s, a) IN
    IF base.raised # "none" THEN [st |-> base.st, raised |-> base.raised, leak |-> FALSE]
    ELSE RunPasses(base.st, a, 1, base.samples)

(***************************************************************************)
(* get_mcmc_spectra, get_mcmc_photometry, get_samples                      *)
(***************************************************************************)
\* samples[ran_walker, ran_step, :] of a 3-D array and samples[ran_index, ]
\* of a 2-D array: draws is the sequence of the random indices, each a
\* record [walker, step] (step is not used for a 2-D array)
DrawRows(a, draws) ==
    LET p == a.shape[Len(a.shape)]
        offset(d) == IF Ndim(a) = 3 THEN (d.walker * a.shape[2] + d.step) * p
                     ELSE d.walker * p
    IN  NdArray(<<Len(draws), p>>,
                [k \in 1..(Len(draws) * p) |->
                    a.flat[offset(draws[((k - 1) \div p) + 1]) + ((k - 1) % p) + 1]])

\* the indices np.random.randint can return for an array
DrawRange(a) ==
    [walker : 0..(a.shape[1] - 1),
     step : IF Ndim(a) = 3 THEN 0..(a.shape[2] - 1) ELSE {0}]

\* model_param = {}; for j in range(ncols):
\*     if param[j] not in ignore_param: model_param[param[j]] = row[j]
\* and the distance attribute when it is given
ModelParam(param, ignore_param, row, ncols, distance) ==
    LET names == {param[j] : j \in {i \in 1..ncols : param[i] \notin ignore_param}}
        last(name) == CHOOSE j \in 1..ncols :
                         param[j] = name /\ \A i \in (j + 1)..ncols : param[i] # name
    IN  [k \in names \cup (IF IsSome(distance) THEN {"distance"} ELSE {}) |->
            IF k = "distance" /\ IsSome(distance) THEN distance[1] ELSE row[last(k)]]

ParamList(attrs, n_param) == [i \in 1..n_param |-> attrs[Key("parameter", i - 1)]]

OptAttr(attrs, key) == IF key \in DOMAIN attrs THEN <<attrs[key]>> ELSE <<>>

\* get_mcmc_spectra(tag, random, burnin): draws are the random indices;
\* the value is the list of the parameter dictionaries that are handed to
\* the forward model, one per drawn sample
McmcSpectra(s, tag, burnin, draws) ==
    IF ~Exists(s, SamplesPath(tag)) THEN Leak("KeyError", NoData, NoData)
    ELSE
    LET dset == s[SamplesPath(tag)]
        attrs == dset.attrs
        samples0 == dset.data
    IN
    IF ~({"type", "spectrum"} \subseteq DOMAIN attrs) THEN Leak("KeyError", NoData, NoData)
    ELSE IF ~HasNParam(attrs) THEN Leak("UnboundLocalError", NoData, NoData)
    ELSE
    LET n_param == NParam(attrs)
        n_scaling == IF "n_scaling" \in DOMAIN attrs THEN attrs["n_scaling"]
                     ELSE IF "nscaling" \in DOMAIN attrs THEN attrs["nscaling"] ELSE 0
        n_error == IF "n_error" \in DOMAIN attrs THEN attrs["n_error"] ELSE 0
    IN
    IF \/ \E i \in 0..(n_scaling - 1) : Key("scaling", i) \notin DOMAIN attrs
       \/ \E i \in 0..(n_error - 1) : Key("error", i) \notin DOMAIN attrs
       \/ ~HasParams(attrs, n_param)
    THEN Leak("KeyError", NoData, NoData)
    ELSE
    LET param == ParamList(attrs, n_param)
        ignore_param ==
            {attrs[Key("scaling", i)] : i \in 0..(n_scaling - 1)}
            \cup {attrs[Key("error", i)] : i \in 0..(n_error - 1)}
            \cup {param[i] : i \in {j \in 1..n_param :
                                     \/ StrPrefix(param[j], 9) = "corr_len_"
                                     \/ StrPrefix(param[j], 9) = "corr_amp_"}}
    IN
    IF Ndim(samples0) = 3 /\ burnin > samples0.shape[1] THEN Leak("burnin", NoData, NoData)
    ELSE
    LET trimmed == IF Ndim(samples0) = 3 THEN SliceFrom(samples0, burnin) ELSE samples0 IN
    IF DrawRange(trimmed) = {} THEN Leak("ValueError", trimmed, NoData)
    ELSE
    LET samples == DrawRows(trimmed, draws) IN
    IF samples.shape[2] > n_param THEN Leak("IndexError", samples, NoData)
    ELSE Return([i \in 1..samples.shape[1] |->
                    ModelParam(param, ignore_param, RowOf(samples, i - 1),
                               samples.shape[2], OptAttr(attrs, "distance"))],
                samples, NoData)

\* get_mcmc_photometry(tag, filter_name, burnin, phot_type) with a valid
\* phot_type; the value is the list of the parameter dictionaries that are
\* handed to the forward model, one per sample
McmcPhotometry(s, tag, burnin) ==
    IF ~Exists(s, SamplesPath(tag)) THEN Leak("KeyError", NoData, NoData)
    ELSE
    LET dset == s[SamplesPath(tag)]
        attrs == dset.attrs
        samples0 == dset.data
    IN
    IF ~HasNParam(attrs) THEN Leak("UnboundLocalError", NoData, NoData)
    ELSE IF ~({"type", "spectrum"} \subseteq DOMAIN attrs)
    THEN Leak("KeyError", NoData, NoData)
    ELSE
    LET n_param == NParam(attrs) IN
    IF Ndim(samples0) = 3 /\ burnin > samples0.shape[1] THEN Leak("burnin", NoData, NoData)
    ELSE
    LET trimmed == IF Ndim(samples0) = 3 THEN SliceFrom(samples0, burnin) ELSE samples0 IN
    IF Ndim(samples0) = 3
       /\ Len(trimmed.flat) # trimmed.shape[1] * trimmed.shape[2] * n_param
    THEN Leak("ValueError", trimmed, NoData)
    ELSE
    LET samples == IF Ndim(samples0) = 3
                   THEN NdArray(<<trimmed.shape[1] * trimmed.shape[2], n_param>>,
                                trimmed.flat)
                   ELSE samples0
    IN
    IF ~HasParams(attrs, n_param) THEN Leak("KeyError", samples, NoData)
    ELSE IF samples.shape[1] > 0 /\ n_param > samples.shape[2]
    THEN Raise("IndexError", samples, NoData)
    ELSE Return([i \in 1..samples.shape[1] |->
                    ModelParam(ParamList(attrs, n_param), {}, RowOf(samples, i - 1),
                               n_param, OptAttr(attrs, "distance"))],
                samples, NoData)

\* get_samples(tag, burnin, random, json_file=None): draws is <<>> when
\* random is None and <<indices>> otherwise
GetSamplesOp(s, tag, burnin, draws) ==
    IF ~Exists(s, SamplesPath(tag)) \/ ~Exists(s, LnProbPath(tag))
    THEN Leak("KeyError", NoData, NoData)
    ELSE
    LET dset == s[SamplesPath(tag)]
        attrs == dset.attrs
        samples0 == dset.data
        ln_prob == s[LnProbPath(tag)].data
    IN
    IF "spectrum" \notin DOMAIN attrs THEN Leak("KeyError", NoData, ln_prob)
    ELSE IF ~HasNParam(attrs) THEN Leak("UnboundLocalError", NoData, ln_prob)
    ELSE
    LET n_param == NParam(attrs) IN
    IF Ndim(samples0) = 3 /\ burnin > samples0.shape[1] THEN Leak("burnin", NoData, ln_prob)
    ELSE
    LET trimmed == IF Ndim(samples0) = 3 THEN SliceFrom(samples0, burnin) ELSE samples0 IN
    IF IsSome(draws) /\ DrawRange(trimmed) = {} THEN Leak("ValueError", trimmed, ln_prob)
    ELSE
    LET samples == IF IsSome(draws) THEN DrawRows(trimmed, draws[1]) ELSE trimmed IN
    IF ~HasParams(attrs, n_param) THEN Leak("KeyError", samples, ln_prob)
    ELSE
    LET prob == ProbableSample(s, tag, burnin)
        median == MedianSample(s, tag, burnin)
    IN
    IF Ndim(samples) = 3 /\ prob.raised # "none" THEN Leak(prob.raised, samples, ln_prob)
    ELSE IF median.raised # "none" THEN Raise(median.raised, samples, ln_prob)
    ELSE Return([parameters |-> ParamList(attrs, n_param),
                 prob_sample |-> IF Ndim(samples) = 3 THEN <<prob.value>> ELSE <<>>,
                 median_sample |-> median.value,
                 ln_evidence |-> OptAttr(attrs, "ln_evidence")],
                samples, ln_prob)

(***************************************************************************)
(* Inputs                                                                  *)
(***************************************************************************)
Arrays(shape, maxval) == {NdArray(shape, f) : f \in [1..Prod(shape) -> 0..maxval]}

ParamNames == <<"teff", "logg", "radius">>

\* emcee chains: (walkers, steps, parameters) with the (walkers, steps)
\* log-probabilities
ChainShapes == {<<w, st, 1>> : w \in 1..MaxWalkers, st \in 1..MaxSteps}

\* log-probabilities with a single maximum at position k, and (k = 0) with
\* all entries tied
Peaks(shape, maxval) ==
    {NdArray(shape, [i \in 1..Prod(shape) |-> IF i = k THEN maxval ELSE 0]) :
        k \in 0..Prod(shape)}

SampleInputs(shapes) ==
    UNION {{[samples |-> x, ln_prob |-> l] :
                x \in Arrays(sh, MaxVal), l \in Peaks(SubSeq(sh, 1, Len(sh) - 1), MaxLnProb)} :
           sh \in shapes}

\* the arguments of an add_samples call; auto tells whether the
\* autocorrelation estimate of the call succeeds
SamplesArgs(tag, samples, ln_prob, modelpar, distance, auto) ==
    [sampler |-> IF Ndim(samples) = 3 THEN "emcee" ELSE "multinest",
     samples |-> samples,
     ln_prob |-> ln_prob,
     ln_evidence |-> IF Ndim(samples) = 3 THEN <<>> ELSE <<<<5, 1>>>>,
     mean_accept |-> IF Ndim(samples) = 3 THEN <<1>> ELSE <<>>,
     spectrum |-> <<"model", "planck">>,
     tag |-> tag,
     modelpar |-> modelpar,
     distance |-> distance,
     spec_labels |-> <<>>,
     int_auto |-> IF auto THEN <<[i \in 1..AutocorrSize(samples) |-> 1]>> ELSE <<>>]

AddSamplesArgs(shapes, modelpars, distances, autos) ==
    {SamplesArgs(tag, d.samples, d.ln_prob, m, dist, auto) :
        tag \in Tags, d \in SampleInputs(shapes), m \in modelpars,
        dist \in distances, auto \in autos}

\* well-formed sample sets (one parameter name per column): every chain,
\* and the tables of one column or one row
FitArgs(shapes) ==
    UNION {AddSamplesArgs({sh}, {SubSeq(ParamNames, 1, sh[Len(sh)])}, {<<>>}, {FALSE}) :
           sh \in shapes}

(***************************************************************************)
(* The state machine                                                       *)
(***************************************************************************)
NoLoc == [op |-> "none"]

Init ==
    /\ store = <<>>
    /\ handles = 0
    /\ outcome = [op |-> "none", raised |-> "none"]
    /\ pc = "idle"
    /\ loc = NoLoc

Burnins == 0..MaxBurnin

\* h5py.File(self.database, 'r') raises before there is a handle when the
\* file has not been created yet (nothing has been stored)
OpenRead(s, r) == IF DOMAIN s = {} THEN Raise("OSError", NoData, NoData) ELSE r

\* an operation that raises with its handle open leaves one more handle
Leaked(r) == IF r.leak THEN handles + 1 ELSE handles

CanLeak(r) == r.leak => handles < MaxHandles

Called(op, tag, burnin, r) ==
    [op |-> op, tag |-> tag, burnin |-> burnin, raised |-> r.raised, value |-> r.value,
     samples |-> r.samples, ln_prob |-> r.ln_prob]

AddSamples(args) ==
    /\ pc = "idle"
    /\ \E a \in args :
        /\ store' = AddSamplesStore(store, a)
        /\ outcome' = [op |-> "add_samples", tag |-> a.tag, raised |-> "none",
                       replaced |-> Exists(store, FitPath(a.tag))]
    /\ UNCHANGED <<handles, pc, loc>>

GetProbableSample ==
    /\ pc = "idle"
    /\ \E tag \in Tags, burnin \in Burnins :
        LET r == OpenRead(store, ProbableSample(store, tag, burnin)) IN
        /\ CanLeak(r)
        /\ handles' = Leaked(r)
        /\ outcome' = Called("get_probable_sample", tag, burnin, r)
    /\ UNCHANGED <<store, pc, loc>>

GetMedianSample ==
    /\ pc = "idle"
    /\ \E tag \in Tags, burnin \in Burnins :
        LET r == OpenRead(store, MedianSample(store, tag, burnin)) IN
        /\ CanLeak(r)
        /\ handles' = Leaked(r)
        /\ outcome' = Called("get_median_sample", tag, burnin, r)
    /\ UNCHANGED <<store, pc, loc>>

\* the sample array from which an accessor draws its random samples
Trimmed(s, tag, burnin) ==
    IF Exists(s, SamplesPath(tag)) /\ Ndim(s[SamplesPath(tag)].data) = 3
    THEN SliceFrom(s[SamplesPath(tag)].data, burnin)
    ELSE IF Exists(s, SamplesPath(tag)) THEN s[SamplesPath(tag)].data
    ELSE NoData

\* the outcomes of np.random.randint(..., size=random); when there is
\* nothing to draw from the draw is not reached or raises
Draws(s, tag, burnin, random) ==
    LET a == Trimmed(s, tag, burnin) IN
    IF a = NoData \/ DrawRange(a) = {} THEN {<<>>}
    ELSE [1..random -> DrawRange(a)]

GetMcmcSpectra ==
    /\ pc = "idle"
    /\ \E tag \in Tags, burnin \in Burnins, random \in 1..MaxRandom :
        \E draws \in Draws(store, tag, burnin, random) :
            LET r == OpenRead(store, McmcSpectra(store, tag, burnin, draws)) IN
            /\ CanLeak(r)
            /\ handles' = Leaked(r)
            /\ outcome' = Called("get_mcmc_spectra", tag, burnin, r)
    /\ UNCHANGED <<store, pc, loc>>

GetMcmcPhotometry ==
    /\ pc = "idle"
    /\ \E tag \in Tags, burnin \in Burnins :
        LET r == OpenRead(store, McmcPhotometry(store, tag, burnin)) IN
        /\ CanLeak(r)
        /\ handles' = Leaked(r)
        /\ outcome' = Called("get_mcmc_photometry", tag, burnin, r)
    /\ UNCHANGED <<store, pc, loc>>

GetSamples ==
    /\ pc = "idle"
    /\ \E tag \in Tags, burnin \in Burnins :
        \E draws \in {<<>>} \cup {<<d>> : d \in Draws(store, tag, burnin, MaxRandom)} :
            LET r == OpenRead(store, GetSamplesOp(store, tag, burnin, draws)) IN
            /\ CanLeak(r)
            /\ handles' = Leaked(r)
            /\ outcome' = Called("get_samples", tag, burnin, r)
    /\ UNCHANGED <<store, pc, loc>>

Next ==
    \/ AddSamples(FitArgs(ChainShapes \cup {<<MaxRows, 1>>, <<1, MaxParams>>}))
    \/ GetProbableSample
    \/ GetMedianSample
    \/ GetMcmcSpectra
    \/ GetMcmcPhotometry
    \/ GetSamples

Spec == Init /\ [][Next]_vars

(***************************************************************************)
(* add_retrieval, one append pass per step                                 *)
(***************************************************************************)
RetrievalParams == <<"fe_tau", "logg", "scaling_a">>

\* the content of radtrans.json
Radtrans(cloud_species, quenching) ==
    [distance |-> 10,
     line_species |-> <<"H2O">>,
     cloud_species |-> cloud_species,
     scattering |-> FALSE,
     pt_profile |-> "molliere",
     chemistry |-> "equilibrium",
     wavel_range |-> <<1, 5>>,
     quenching |-> quenching,
     pt_smooth |-> <<>>]

\* post_equal_weights.dat: MaxRows samples of w parameters followed by the
\* column of the log-likelihoods; the parameter values run along the rows
\* and the columns from the offset o on, so that neighbouring rows differ
RetrievalTables(w) ==
    {NdArray(<<MaxRows, w + 1>>,
             [k \in 1..(MaxRows * (w + 1)) |->
                 IF (k - 1) % (w + 1) = w THEN ((k - 1) \div (w + 1)) % (MaxLnProb + 1)
                 ELSE (((k - 1) \div (w + 1)) + ((k - 1) % (w + 1)) + o) % (MaxVal + 1)]) :
        o \in 0..MaxVal}

\* the arguments of add_retrieval with the files of the output folder; the
\* table may have more or fewer columns than params.json has names, and
\* fail is the number of the pass whose forward model raises (0: none)
RetrievalArgsOf(clouds, quenchings, teffs, tables, fails) ==
    {[tag |-> tag, parameters |-> SubSeq(RetrievalParams, 1, n),
      radtrans |-> Radtrans(c, q), samples |-> t, inc_teff |-> teff, fail |-> f] :
        tag \in Tags, n \in 1..MaxParams, c \in clouds, q \in quenchings,
        teff \in teffs, t \in tables, f \in fails}

RetrievalArgs ==
    RetrievalArgsOf({<<>>, <<"Fe(c)_cd">>, <<"MgSiO3(c)_cd", "Fe(c)_cd">>},
                    {<<>>, <<"diffusion">>}, BOOLEAN,
                    UNION {RetrievalTables(w) : w \in 1..MaxParams}, {0})

\* arrays of a shape whose values run from the offset o on
Ramps(shape) ==
    {NdArray(shape, [k \in 1..Prod(shape) |-> (k + o) % (MaxVal + 1)]) : o \in 0..MaxVal}

\* tables of one column or one row stored by add_samples, with every
\* modelpar list
TableArgs ==
    UNION {{SamplesArgs(tag, x, l, m, <<>>, FALSE) :
                tag \in Tags, x \in Ramps(sh), l \in Peaks(<<sh[1]>>, MaxLnProb),
                m \in {SubSeq(ParamNames, 1, k) : k \in 1..MaxParams}} :
           sh \in {<<MaxRows, 1>>, <<1, MaxParams>>}}

\* the first "with" block of add_retrieval
AddRetrievalBegin ==
    /\ pc = "idle"
    /\ \E a \in RetrievalArgs :
        LET base == RetrievalBase(store, a) IN
        /\ store' = base.st
        /\ IF base.raised = "none" /\ RetrievalPasses(a) # <<>>
           THEN /\ pc' = "passes"
                /\ loc' = [op |-> "add_retrieval", args |-> a, k |-> 1,
                           samples |-> base.samples]
           ELSE pc' = "idle" /\ loc' = NoLoc
        /\ outcome' = [op |-> "add_retrieval", tag |-> a.tag, raised |-> base.raised]
    /\ UNCHANGED handles

\* the pass that add_retrieval runs next
ThisPass == RetrievalPasses(loc.args)[loc.k]

\* the column that the next pass computes
ThisColumn == ColumnOfPass(store, loc.args, ThisPass, loc.samples)

\* after pass number loc.k: the next pass, or the end of add_retrieval
PassEnds(samples) ==
    IF loc.k = Len(RetrievalPasses(loc.args))
    THEN pc' = "idle" /\ loc' = NoLoc
    ELSE /\ pc' = "passes"
         /\ loc' = [op |-> "add_retrieval", args |-> loc.args, k |-> loc.k + 1,
                    samples |-> samples]

\* one derived-column pass of add_retrieval: the forward model and the
\* "with" block that appends its column
RetrievalPass ==
    /\ pc = "passes"
    /\ store' = AppendPass(store, loc.args.tag, ThisColumn, ThisPass.name)
    /\ PassEnds(PassRead(store, loc.args.tag, ThisColumn))
    /\ outcome' = [op |-> "append", tag |-> loc.args.tag, raised |-> "none",
                   name |-> ThisPass.name]
    /\ UNCHANGED handles

\* the forward model of a pass raises: add_retrieval ends before the "with"
\* block of the pass; get_retrieval_spectra has opened the store by then
RetrievalPassFails ==
    /\ pc = "passes"
    /\ ThisPass.kind = "teff" => handles < MaxHandles
    /\ handles' = IF ThisPass.kind = "teff" THEN handles + 1 ELSE handles
    /\ pc' = "idle"
    /\ loc' = NoLoc
    /\ outcome' = [op |-> "add_retrieval", tag |-> loc.args.tag,
                   raised |-> "forward-model"]
    /\ UNCHANGED store

NextRetrieval ==
    \/ AddSamples(TableArgs)
    \/ AddRetrievalBegin
    \/ RetrievalPass
    \/ RetrievalPassFails

SpecRetrieval == Init /\ [][NextRetrieval]_vars

(***************************************************************************)
(* add_retrieval, one statement of an append pass per step                 *)
(***************************************************************************)
\* with h5py.File(self.database, 'a') as h5_file: the forward model has
\* run, the block reads the attributes and appends the column in memory
StepRead ==
    /\ pc = "passes"
    /\ handles' = handles + 1
    /\ pc' = "p_read"
    /\ loc' = [op |-> "add_retrieval", args |-> loc.args, k |-> loc.k,
               samples |-> PassRead(store, loc.args.tag, ThisColumn),
               dset_attrs |-> store[SamplesPath(loc.args.tag)].attrs,
               name |-> ThisPass.name]
    /\ UNCHANGED <<store, outcome>>

StepDelete ==
    /\ pc = "p_read"
    /\ store' = PassDelete(store, loc.args.tag)
    /\ pc' = "p_deleted"
    /\ UNCHANGED <<handles, outcome, loc>>

StepCreate ==
    /\ pc = "p_deleted"
    /\ store' = PassCreate(store, loc.args.tag, loc.samples)
    /\ pc' = "p_created"
    /\ UNCHANGED <<handles, outcome, loc>>

StepCopy ==
    /\ pc = "p_created"
    /\ store' = PassCopy(store, loc.args.tag, loc.dset_attrs)
    /\ pc' = "p_copied"
    /\ UNCHANGED <<handles, outcome, loc>>

StepNParam ==
    /\ pc = "p_copied"
    /\ store' = PassNParam(store, loc.args.tag, loc.dset_attrs)
    /\ pc' = "p_counted"
    /\ UNCHANGED <<handles, outcome, loc>>

\* the last statement of the block; leaving the block closes the store
StepName ==
    /\ pc = "p_counted"
    /\ store' = PassName(store, loc.args.tag, loc.dset_attrs, loc.name)
    /\ handles' = handles - 1
    /\ PassEnds(loc.samples)
    /\ outcome' = [op |-> "append", tag |-> loc.args.tag, raised |-> "none",
                   name |-> loc.name]

\* an exception inside the block (an interrupt, an I/O error): the context
\* manager closes the store, nothing written so far is undone, and
\* add_retrieval ends
Abort ==
    /\ pc \in {"p_read", "p_deleted", "p_created", "p_copied", "p_counted"}
    /\ handles' = handles - 1
    /\ pc' = "idle"
    /\ loc' = NoLoc
    /\ outcome' = [op |-> "add_retrieval", tag |-> loc.args.tag, raised |-> "aborted"]
    /\ UNCHANGED store

NextSteps ==
    \/ AddRetrievalBegin
    \/ RetrievalPassFails
    \/ StepRead
    \/ StepDelete
    \/ StepCreate
    \/ StepCopy
    \/ StepNParam
    \/ StepName
    \/ Abort

SpecSteps == Init /\ [][NextSteps]_vars

(***************************************************************************)
(* add_filter                                                              *)
(***************************************************************************)
RECURSIVE Split(_)
\* filter_name.split('/')
Split(str) ==
    IF \E i \in 1..Len(str) : SubSeq(str, i, i) = "/"
    THEN LET i == CHOOSE j \in 1..Len(str) :
                    /\ SubSeq(str, j, j) = "/"
                    /\ \A k \in 1..(j - 1) : SubSeq(str, k, k) # "/"
         IN  <<SubSeq(str, 1, i - 1)>> \o Split(SubSeq(str, i + 1, Len(str)))
    ELSE <<str>>

\* the node that h5py addresses as f'filters/{filter_name}'
FilterPath(filter_name) == <<"filters">> \o Split(filter_name)

RECURSIVE CollapseNotStrict(_, _, _)
\* the loop with >= for >: a row that repeats the last wavelength is kept
CollapseNotStrict(rows, i, new) ==
    IF i >= Len(rows) - 1 THEN new
    ELSE CollapseNotStrict(rows, i + 1,
                           IF rows[i + 2][1] >= new[Len(new)][1] THEN Append(new, rows[i + 2])
                           ELSE new)

RECURSIVE Collapse(_, _, _)
\* for i in range(wavelength.size-1):
\*     if wavelength[i+1] > wavel_new[-1]: append row i+1
\* with the rows <<wavelength, transmission>> of the curve
Collapse(rows, i, new) ==
    IF i >= Len(rows) - 1 THEN new
    ELSE Collapse(rows, i + 1,
                  IF rows[i + 2][1] > new[Len(new)][1] THEN Append(new, rows[i + 2])
                  ELSE new)

\* np.column_stack((wavel_new, transm_new))
ColumnStack(rows) ==
    NdArray(<<Len(rows), 2>>,
            [k \in 1..(2 * Len(rows)) |-> rows[((k - 1) \div 2) + 1][((k - 1) % 2) + 1]])

\* add_filter(filter_name, filename, detector_type): a.filename is <<>> or
\* holds the rows of the file, a.download is what filters.download_filter
\* returns, with curve = <<>> for (None, None)
AddFilterStore(s, a) ==
    LET path == FilterPath(a.filter_name)
        s1 == DelIfExists(s, path)
        s2 == EnsureGroup(s1, <<"filters">>)
        s3 == EnsureGroup(s2, <<"filters", Split(a.filter_name)[1]>>)
        local == a.filename # <<>>
        curve == IF local THEN a.filename[1] ELSE a.download.curve
        det_type == IF local THEN a.detector_type ELSE a.download.det_type
    IN  \* np.loadtxt of a file with a single row gives a 1-D array
        IF local /\ Len(curve) < 2 THEN [st |-> s3, raised |-> "IndexError", leak |-> TRUE]
        ELSE IF curve = <<>> THEN [st |-> s3, raised |-> "none", leak |-> FALSE]
        ELSE IF ~CanCreate(s3, path) THEN [st |-> s3, raised |-> "ValueError", leak |-> TRUE]
        ELSE [st |-> WithAttrs(CreateDataset(s3, path,
                                             ColumnStack(Collapse(curve, 0, <<curve[1]>>))),
                               path, Set(NoAttrs, "det_type", det_type)),
              raised |-> "none", leak |-> FALSE]

(***************************************************************************)
(* add_calibration                                                         *)
(***************************************************************************)
RECURSIVE Gcd(_, _)
Gcd(a, b) == IF b = 0 THEN a ELSE Gcd(b, a % b)

\* floating-point values are kept as fractions <<numerator, denominator>>
Frac(n, d) == <<n \div Gcd(n, d), d \div Gcd(n, d)>>

Times(x, y) == Frac(x[1] * y[1], x[2] * y[2])

Over(x, y) == Frac(x[1] * y[2], x[2] * y[1])

CalibrationPath(tag) == <<"spectra", "calibration", tag>>

\* factor*data[:, j]
Scaled(factor, data, j) == [i \in 1..data.shape[1] |-> Times(factor, Frac(ColumnOf(data, j)[i], 1))]

\* column/wavelength
PerWavelength(column, wavelength) == [i \in 1..Len(column) |-> Over(column[i], wavelength[i])]

\* add_calibration(tag, filename, data, units, scaling): a.data is the
\* array of the data argument or of np.loadtxt(filename); the locals
\* wavelength, flux and error are <<>> as long as they are unbound
AddCalibrationStore(s, a) ==
    LET path == CalibrationPath(a.tag)
        scaling == IF a.scaling = <<>> THEN <<Frac(1, 1), Frac(1, 1)>> ELSE a.scaling[1]
        s1 == EnsureGroup(s, <<"spectra", "calibration">>)
        s2 == DelIfExists(s1, path)
        data == a.data
        none == a.units = <<>>
        wunit == IF none THEN "um" ELSE a.units[1].wavelength
        funit == IF none THEN "w m-2 um-1" ELSE a.units[1].flux
        wavelength ==
            IF wunit = "um" THEN <<Scaled(scaling[1], data, 0)>>
            ELSE IF wunit = "angstrom"
            THEN <<Scaled(Times(scaling[1], Frac(1, 10000)), data, 0)>>
            ELSE <<>>
        converted(j) ==
            IF funit = "w m-2 um-1" THEN <<Scaled(scaling[2], data, j)>>
            ELSE IF funit = "w m-2" /\ wunit = "um"
            THEN <<PerWavelength(Scaled(scaling[2], data, j), wavelength[1])>>
            ELSE <<>>
        flux == converted(1)
        error == IF data.shape[2] = 3 THEN converted(2)
                 ELSE <<[i \in 1..Len(wavelength[1]) |-> Frac(0, 1)]>>
        failed(kind) == [st |-> s2, raised |-> kind, leak |-> TRUE]
    IN  \* np.loadtxt of a file with a single row gives a 1-D array
        IF Ndim(data) # 2 THEN failed("IndexError")
        ELSE IF wavelength = <<>> \/ flux = <<>> \/ error = <<>>
        THEN failed("UnboundLocalError")
        ELSE [st |-> CreateDataset(s2, path,
                                   NdArray(<<3, data.shape[1]>>,
                                           wavelength[1] \o flux[1] \o error[1])),
              raised |-> "none", leak |-> FALSE]

(***************************************************************************)
(* add_empirical, add_comparison                                           *)
(***************************************************************************)
\* a list stored as a 1-D dataset
Dataset1D(list) == NdArray(<<Len(list)>>, list)

\* add_empirical(tag, names, sptypes, goodness_of_fit, flux_scaling,
\* av_ext, rad_vel, object_name, spec_name, spec_library)
AddEmpiricalStore(s, a) ==
    LET base == <<"results", "empirical", a.tag>>
        s1 == EnsureGroup(s, <<"results">>)
        s2 == EnsureGroup(s1, <<"results", "empirical">>)
        s3 == DelIfExists(s2, base)
        s4 == CreateDataset(s3, Append(base, "names"), Dataset1D(a.names))
        a1 == Set(NoAttrs, "object_name", a.object_name)
        a2 == Set(a1, "spec_library", a.spec_library)
        a3 == Set(a2, "n_spec_name", Len(a.spec_name))
        s5 == WithAttrs(s4, Append(base, "names"), SetNumbered(a3, "spec_name", a.spec_name, 0))
        s6 == CreateDataset(s5, Append(base, "sptypes"), Dataset1D(a.sptypes))
        s7 == CreateDataset(s6, Append(base, "goodness_of_fit"), Dataset1D(a.goodness_of_fit))
        s8 == CreateDataset(s7, Append(base, "flux_scaling"), Dataset1D(a.flux_scaling))
        s9 == CreateDataset(s8, Append(base, "av_ext"), Dataset1D(a.av_ext))
    IN  CreateDataset(s9, Append(base, "rad_vel"), Dataset1D(a.rad_vel))

\* np.unravel_index(k, shape) for the flat index k counted from 0
UnravelIndex(k, shape) ==
    [j \in 1..Len(shape) |->
        (k \div Prod(SubSeq(shape, j + 1, Len(shape)))) % shape[j]]

\* goodness_of_fit.argmin(): the first index of the minimum, counted from 0
ArgMin(flat) == ArgMax([i \in 1..Len(flat) |-> 0 - flat[i]]) - 1

RECURSIVE SetBestParams(_, _, _, _, _)
\* for i, item in enumerate(model_param):
\*     dset.attrs[f'best_param{i}'] = coord_points[i][best_index[i]]
\* the loop stops at the first index that is out of range
SetBestParams(attrs, model_param, coord_points, best_index, i) ==
    IF i >= Len(model_param) THEN [attrs |-> attrs, raised |-> "none"]
    ELSE IF \/ i >= Len(coord_points)
            \/ i >= Len(best_index)
            \/ best_index[i + 1] >= Len(coord_points[i + 1])
    THEN [attrs |-> attrs, raised |-> "IndexError"]
    ELSE SetBestParams(Set(attrs, Key("best_param", i), coord_points[i + 1][best_index[i + 1] + 1]),
                       model_param, coord_points, best_index, i + 1)

\* a[i0, i1, i2] with i == <<i0, i1, i2>>: a value of a 3-D array, the
\* remaining axes of a larger one
Index3(a, i) ==
    LET rest == Prod(SubSeq(a.shape, 4, Len(a.shape)))
        offset == ((i[1] * a.shape[2] + i[2]) * a.shape[3] + i[3]) * rest
    IN  NdArray(SubSeq(a.shape, 4, Len(a.shape)), SubSeq(a.flat, offset + 1, offset + rest))

\* add_comparison(tag, goodness_of_fit, flux_scaling, model_param,
\* coord_points, object_name, spec_name, model, scale_spec, extra_scaling);
\* a.distance is the distance that ReadObject returns for the object.  The
\* "with" block closes the store when a statement raises
AddComparisonStore(s, a) ==
    LET base == <<"results", "comparison", a.tag>>
        gof == Append(base, "goodness_of_fit")
        s1 == EnsureGroup(s, <<"results">>)
        s2 == EnsureGroup(s1, <<"results", "comparison">>)
        s3 == DelIfExists(s2, base)
        s4 == CreateDataset(s3, gof, a.goodness_of_fit)
        a1 == Set(NoAttrs, "object_name", a.object_name)
        a2 == Set(a1, "model", a.model)
        a3 == Set(a2, "n_param", Len(a.model_param))
        a4 == Set(a3, "n_spec_name", Len(a.spec_name))
        a5 == Set(a4, "n_scale_spec", Len(a.scale_spec))
        a6 == Set(a5, "distance", a.distance)
        a7 == SetNumbered(a6, "parameter", a.model_param, 0)
        a8 == SetNumbered(a7, "spec_name", a.spec_name, 0)
        a9 == SetNumbered(a8, "scale_spec", a.scale_spec, 0)
        s5 == CreateDataset(s4, Append(base, "flux_scaling"), a.flux_scaling)
        s6 == IF Len(a.scale_spec) > 0
              THEN CreateDataset(s5, Append(base, "extra_scaling"), a.extra_scaling)
              ELSE s5
        points == {Append(base, Key("coord_points", i)) : i \in 0..(Len(a.coord_points) - 1)}
        s7 == [q \in DOMAIN s6 \cup points |->
                  IF q \in points
                  THEN Dataset(Dataset1D(a.coord_points[
                           CHOOSE i \in 1..Len(a.coord_points) :
                               q = Append(base, Key("coord_points", i - 1))]))
                  ELSE s6[q]]
        best_index == UnravelIndex(ArgMin(a.goodness_of_fit.flat), a.goodness_of_fit.shape)
        a10 == Set(a9, "best_fit", a.goodness_of_fit.flat[ArgMin(a.goodness_of_fit.flat) + 1])
        best == SetBestParams(a10, a.model_param, a.coord_points, best_index, 0)
        scaling == Index3(a.flux_scaling, best_index)
        \* radius = np.sqrt(scaling * (distance*constants.PARSEC)**2) / R_JUP
        radius == [sqrt_of |-> scaling, distance |-> a.distance]
        a11 == Set(Set(best.attrs, "radius", radius), "scaling", scaling)
        \* dset.attrs[f'scaling_{item}'] =
        \*     scaling / extra_scaling[best_index[0], best_index[1], best_index[2], i]
        scaled == {"scaling_" \o a.scale_spec[i] : i \in 1..Len(a.scale_spec)}
        a12 == [k \in DOMAIN a11 \cup scaled |->
                   IF k \in scaled
                   THEN [ratio_of |-> scaling,
                         to |-> Index3(a.extra_scaling, best_index).flat[
                                    CHOOSE i \in 1..Len(a.scale_spec) :
                                        /\ k = "scaling_" \o a.scale_spec[i]
                                        /\ \A j \in (i + 1)..Len(a.scale_spec) :
                                               k # "scaling_" \o a.scale_spec[j]]]
                   ELSE a11[k]]
    IN  IF best.raised # "none"
        THEN [st |-> WithAttrs(s7, gof, best.attrs), raised |-> best.raised]
        ELSE IF Len(best_index) < 3 \/ Ndim(a.flux_scaling) < 3
        THEN [st |-> WithAttrs(s7, gof, best.attrs), raised |-> "IndexError"]
        ELSE [st |-> WithAttrs(s7, gof, a12), raised |-> "none"]

(***************************************************************************)
(* Ingestion of filters                                                    *)
(***************************************************************************)
\* curves of up to MaxCurve rows <<wavelength, transmission>>; the
\* transmission of a row is its number, which tells the rows apart
Curves ==
    UNION {{[i \in 1..n |-> <<w[i], i>>] : w \in [1..n -> 1..MaxWavel]} : n \in 1..MaxCurve}

\* calls with a file, and calls for which the profile is downloaded, the
\* download yielding one of the curves given or nothing
FilterArgsOf(names, curves, downloads) ==
    {[filter_name |-> name, filename |-> <<c>>, detector_type |-> "photon",
      download |-> [curve |-> <<>>, det_type |-> "photon"]] :
        name \in names, c \in curves}
    \cup {[filter_name |-> name, filename |-> <<>>, detector_type |-> "photon",
           download |-> [curve |-> c, det_type |-> "energy"]] :
            name \in names, c \in downloads \cup {<<>>}}

\* a call of add_filter with the arguments a
FilterCall(a) ==
    LET r == AddFilterStore(store, a) IN
    /\ CanLeak(r)
    /\ store' = r.st
    /\ handles' = Leaked(r)
    /\ outcome' = [op |-> "add_filter", tag |-> a.filter_name, raised |-> r.raised,
                   replaced |-> Exists(store, FilterPath(a.filter_name)),
                   curve |-> IF a.filename # <<>> THEN a.filename[1]
                             ELSE a.download.curve]

AddFilter(args) ==
    /\ pc = "idle"
    /\ \E a \in args : FilterCall(a)
    /\ UNCHANGED <<pc, loc>>

\* the file of a curve with a repeated wavelength, and a download that
\* yields nothing
IngestFilterArgs ==
    FilterArgsOf({"MKO/J"}, {c \in Curves : Len(c) = 3 /\ \A i \in 1..3 : c[i][1] = 1}, {})

\* a new database and the arguments of the first call of add_filter: any
\* curve, read from a file or downloaded
InitFilter ==
    /\ store = <<>>
    /\ handles = 0
    /\ outcome = [op |-> "none", raised |-> "none"]
    /\ pc = "call"
    /\ loc \in {[op |-> "add_filter", args |-> a] : a \in FilterArgsOf({"MKO/J"}, Curves, Curves)}

AddFilterFirst ==
    /\ pc = "call"
    /\ FilterCall(loc.args)
    /\ pc' = "idle"
    /\ loc' = NoLoc

\* the first call, and later calls that store under the name again
NextFilter ==
    \/ AddFilterFirst
    \/ AddFilter(IngestFilterArgs)

SpecFilter == InitFilter /\ [][NextFilter]_vars

\* the rows of a curve at the positions K, in order
RowsAt(rows, K) ==
    [j \in 1..Cardinality(K) |->
        rows[CHOOSE i \in K : Cardinality({k \in K : k < i}) = j - 1]]

\* K holds the first row and every later row whose wavelength exceeds the
\* wavelength of the last row of K before it
KeptRows(rows, K) ==
    /\ 1 \in K
    /\ \A i \in 2..Len(rows) :
        i \in K <=> (\E k \in K : /\ k < i
                                  /\ \A m \in K : m < i => m <= k
                                  /\ rows[i][1] > rows[k][1])

\* C10: the wavelength column that add_filter stores for a curve is strictly
\* increasing: the first row of the input is kept and a later row is kept
\* exactly when its wavelength exceeds the last kept wavelength, the
\* transmission being carried with the wavelength
C10_FilterStrictlyIncreasing ==
    (outcome.op = "add_filter" /\ Exists(store, FilterPath(outcome.tag)))
        => /\ store[FilterPath(outcome.tag)].kind = "dataset"
           /\ outcome.curve # <<>>
           /\ LET stored == store[FilterPath(outcome.tag)].data
                  rows == outcome.curve
              IN  /\ \A j \in 1..(stored.shape[1] - 1) :
                        RowOf(stored, j - 1)[1] < RowOf(stored, j)[1]
                  /\ \E K \in SUBSET (1..Len(rows)) :
                        /\ KeptRows(rows, K)
                        /\ stored.shape = <<Cardinality(K), 2>>
                        /\ \A j \in 1..Cardinality(K) :
                            RowOf(stored, j - 1) = RowsAt(rows, K)[j]

\* the curve with the wavelengths 1, 2, 1, 3 has been stored as 1, 2, 3
C10_Collapsed ==
    /\ outcome.op = "add_filter"
    /\ outcome.raised = "none"
    /\ outcome.curve = <<<<1, 1>>, <<2, 2>>, <<1, 3>>, <<3, 4>>>>
    /\ store[FilterPath(outcome.tag)].data.flat = <<1, 1, 2, 2, 3, 4>>

(***************************************************************************)
(* Ingestion under a name or tag that may be in use                        *)
(***************************************************************************)
CalibrationArgs ==
    {[tag |-> "vega", data |-> d, units |-> u, scaling |-> <<>>] :
        d \in {NdArray(<<2, 3>>, <<1, 2, 1, 2, 4, 1>>)},
        u \in {<<[wavelength |-> "um", flux |-> "w m-2"]>>,
               <<[wavelength |-> "angstrom", flux |-> "w m-2"]>>}}

IngestSamplesArgs ==
    {SamplesArgs(tag, NdArray(<<1, 1>>, <<MaxVal>>), NdArray(<<1>>, <<0>>),
                 SubSeq(ParamNames, 1, MaxParams), <<>>, FALSE) : tag \in Tags}

\* retrievals of one table of one parameter, with and without a name too
\* many, and three passes of which the second may fail
IngestRetrievalArgs ==
    RetrievalArgsOf({<<"Fe(c)_cd">>}, {<<"diffusion">>}, {TRUE},
                    {t \in RetrievalTables(1) : t.flat[1] = MaxVal},
                    {0, 2})

\* grids of two and of three parameters
ComparisonArgs ==
    {[tag |-> "grid", goodness_of_fit |-> NdArray(sh, g), flux_scaling |-> NdArray(sh, g),
      model_param |-> SubSeq(ParamNames, 1, Len(sh)),
      coord_points |-> [i \in 1..Len(sh) |-> [j \in 1..sh[i] |-> j]],
      object_name |-> "beta Pic b", spec_name |-> <<"SPHERE">>, model |-> "drift-phoenix",
      scale_spec |-> <<>>, extra_scaling |-> <<>>, distance |-> 10] :
        sh \in {<<1, 2>>, <<1, 1, 2>>}, g \in {<<2, 1>>}}

EmpiricalArgs ==
    {[tag |-> "irtf", names |-> n, sptypes |-> [i \in 1..Len(n) |-> "M5"],
      goodness_of_fit |-> [i \in 1..Len(n) |-> i], flux_scaling |-> [i \in 1..Len(n) |-> 1],
      av_ext |-> [i \in 1..Len(n) |-> 0], rad_vel |-> [i \in 1..Len(n) |-> 0],
      object_name |-> "beta Pic b", spec_name |-> <<"SPHERE">>, spec_library |-> "irtf"] :
        n \in {<<"star1", "star2">>}}

AddCalibration ==
    /\ pc = "idle"
    /\ \E a \in CalibrationArgs :
        LET r == AddCalibrationStore(store, a) IN
        /\ CanLeak(r)
        /\ store' = r.st
        /\ handles' = Leaked(r)
        /\ outcome' = [op |-> "add_calibration", tag |-> a.tag, raised |-> r.raised,
                       replaced |-> Exists(store, CalibrationPath(a.tag))]
    /\ UNCHANGED <<pc, loc>>

\* add_retrieval from its first statement to its last
AddRetrievalWhole ==
    /\ pc = "idle"
    /\ \E a \in IngestRetrievalArgs :
        LET r == AddRetrieval(store, a) IN
        /\ CanLeak(r)
        /\ store' = r.st
        /\ handles' = Leaked(r)
        /\ outcome' = [op |-> "add_retrieval", tag |-> a.tag, raised |-> r.raised,
                       replaced |-> Exists(store, FitPath(a.tag))]
    /\ UNCHANGED <<pc, loc>>

AddComparison ==
    /\ pc = "idle"
    /\ \E a \in ComparisonArgs :
        /\ store' = AddComparisonStore(store, a).st
        /\ outcome' = [op |-> "add_comparison", tag |-> a.tag,
                       raised |-> AddComparisonStore(store, a).raised,
                       replaced |-> Exists(store, <<"results", "comparison", a.tag>>)]
    /\ UNCHANGED <<handles, pc, loc>>

AddEmpirical ==
    /\ pc = "idle"
    /\ \E a \in EmpiricalArgs :
        /\ store' = AddEmpiricalStore(store, a)
        /\ outcome' = [op |-> "add_empirical", tag |-> a.tag, raised |-> "none",
                       replaced |-> Exists(store, <<"results", "empirical", a.tag>>)]
    /\ UNCHANGED <<handles, pc, loc>>

NextIngest ==
    \/ AddFilter(IngestFilterArgs)
    \/ AddCalibration
    \/ AddSamples(IngestSamplesArgs)
    \/ AddRetrievalWhole
    \/ AddComparison
    \/ AddEmpirical

SpecIngest == Init /\ [][NextIngest]_vars

\* C2: ingestion under a name or tag replaces what an earlier ingestion
\* under it has stored: for add_filter, add_calibration, add_samples,
\* add_retrieval, add_comparison and add_empirical the store after the
\* call is the store that the call alone would leave, whatever call with
\* the same name or tag came before it, the same call included
C2_ReingestionReplaces ==
    /\ \A a, b \in IngestFilterArgs :
        a.filter_name = b.filter_name
            => AddFilterStore(AddFilterStore(store, b).st, a).st = AddFilterStore(store, a).st
    /\ \A a, b \in CalibrationArgs :
        AddCalibrationStore(AddCalibrationStore(store, b).st, a).st
            = AddCalibrationStore(store, a).st
    /\ \A a, b \in IngestSamplesArgs :
        AddSamplesStore(AddSamplesStore(store, b), a) = AddSamplesStore(store, a)
    /\ \A a, b \in IngestRetrievalArgs :
        AddRetrieval(AddRetrieval(store, b).st, a).st = AddRetrieval(store, a).st
    /\ \A a, b \in ComparisonArgs :
        AddComparisonStore(AddComparisonStore(store, b).st, a).st
            = AddComparisonStore(store, a).st
    /\ \A a, b \in EmpiricalArgs :
        AddEmpiricalStore(AddEmpiricalStore(store, b), a) = AddEmpiricalStore(store, a)

\* add_retrieval has run with all its passes on a tag that was in use
C2_Reingested ==
    /\ outcome.op = "add_retrieval"
    /\ outcome.raised = "none"
    /\ outcome.replaced
    /\ store[SamplesPath(outcome.tag)].attrs["n_param"] > MaxParams
    /\ Exists(store, FilterPath("MKO/J"))
    /\ Exists(store, CalibrationPath("vega"))
    /\ Exists(store, <<"results", "comparison", "grid">>)
    /\ Exists(store, <<"results", "empirical", "irtf">>)

(***************************************************************************)
(* Properties of the stored sample sets                                    *)
(***************************************************************************)
\* the sample array of tag has n_param = its number of columns and the
\* attributes parameter{i} exactly for i < n_param
Consistent(s, tag) ==
    LET node == s[SamplesPath(tag)]
        cols == node.data.shape[Len(node.data.shape)]
    IN  /\ "n_param" \in DOMAIN node.attrs
        /\ node.attrs["n_param"] = cols
        /\ \A i \in 0..(cols + MaxParams) :
            Key("parameter", i) \in DOMAIN node.attrs <=> i < cols

\* C1: after every successful add_samples, add_retrieval or derived-column
\* append, n_param of the stored sample array equals the size of its last
\* dimension and parameter{i} exists exactly for 0 <= i < n_param
C1_NParamMatchesColumns ==
    \A tag \in Tags :
        (/\ outcome.op \in {"add_samples", "add_retrieval", "append"}
         /\ outcome.tag = tag
         /\ outcome.raised = "none")
            => Exists(store, SamplesPath(tag)) /\ Consistent(store, tag)

\* C4: in no state, the states between the statements of an append pass and
\* the states left by an aborted pass included, does the stored sample array
\* have k+1 columns while n_param is missing or still k or parameter{k} is
\* missing
C4_AppendAtomic ==
    \A tag \in Tags :
        Exists(store, SamplesPath(tag)) =>
            LET node == store[SamplesPath(tag)]
                cols == node.data.shape[2]
            IN  /\ "n_param" \in DOMAIN node.attrs
                /\ node.attrs["n_param"] = cols
                /\ Key("parameter", cols - 1) \in DOMAIN node.attrs

\* a step of SpecRetrieval is a successful append pass
IsAppend == pc = "passes" /\ outcome'.raised = "none"

\* C5: an append pass changes nothing of the sample set except for adding
\* one column: every attribute other than n_param keeps its value, the rows
\* and the values of the old columns are unchanged, and so is every other
\* node of the store, ln_prob included
C5_AppendOnlyAddsColumn ==
    [][IsAppend =>
        LET p == SamplesPath(loc.args.tag)
            old == store[p]
            new == store'[p]
            rows == old.data.shape[1]
            cols == old.data.shape[2]
        IN  /\ DOMAIN store' = DOMAIN store
            /\ \A q \in DOMAIN store \ {p} : store'[q] = store[q]
            /\ new.kind = old.kind
            /\ new.data.shape = <<rows, cols + 1>>
            /\ \A i \in 0..(rows - 1) :
                SubSeq(RowOf(new.data, i), 1, cols) = RowOf(old.data, i)
            /\ \A key \in DOMAIN old.attrs \ {"n_param"} :
                key \in DOMAIN new.attrs /\ new.attrs[key] = old.attrs[key]
      ]_vars

\* add_retrieval has appended the quench pressure and after it the
\* effective temperature
C5_Appended ==
    /\ outcome.op = "append"
    /\ outcome.name = "teff"
    /\ LET node == store[SamplesPath(outcome.tag)]
           cols == node.data.shape[2]
       IN  /\ node.attrs[Key("parameter", cols - 1)] = "teff"
           /\ node.attrs[Key("parameter", cols - 2)] = "log_p_quench"
           /\ node.attrs["n_param"] = cols

(***************************************************************************)
(* Properties of the accessors                                             *)
(***************************************************************************)
BurninOps == {"get_probable_sample", "get_median_sample", "get_mcmc_spectra",
              "get_mcmc_photometry", "get_samples"}

\* the sample array on which the last accessor call worked
Stored == store[SamplesPath(outcome.tag)].data

StoredLnProb == store[LnProbPath(outcome.tag)].data

\* the last operation was the accessor op, called on a stored sample set
CalledOn(ops) ==
    /\ pc = "idle"
    /\ outcome.op \in ops
    /\ Exists(store, SamplesPath(outcome.tag))

\* C3: in every state reached after an operation has returned or raised an
\* error, no handle to the store that the operation opened is still open
C3_HandlesClosed == pc = "idle" => handles = 0

\* C6: on a stored 3-D sample array of shape (W, S, P) each of the five
\* accessors raises the burn-in range error exactly when burnin > S
C6_BurninRangeCheck ==
    (CalledOn(BurninOps) /\ Ndim(Stored) = 3)
        => (outcome.raised = "burnin" <=> outcome.burnin > Stored.shape[2])

\* the (walker, step) positions of a (W, S, P) array with step >= burnin, in
\* the row-major order of the array
PostBurnin(a, burnin) ==
    LET W == a.shape[1]
        S == a.shape[2]
        kept == IF burnin >= S THEN 0 ELSE S - burnin
    IN  [k \in 1..(W * kept) |->
            [walker |-> (k - 1) \div kept, step |-> burnin + ((k - 1) % kept)]]

\* the sample at a (walker, step) position of a 3-D array
SampleAt(a, pos) ==
    SubSeq(a.flat, (pos.walker * a.shape[2] + pos.step) * a.shape[3] + 1,
           (pos.walker * a.shape[2] + pos.step + 1) * a.shape[3])

\* the log-probability at a (walker, step) position of a 2-D array
LnProbAt(l, pos) == l.flat[pos.walker * l.shape[2] + pos.step + 1]

\* C7: for a stored (W, S, P) array and 0 <= burnin < S the flattened sample
\* set of get_probable_sample and get_median_sample has W*(S-burnin) rows of
\* P values, which are exactly the samples with step index >= burnin, and
\* the flattened log-probabilities pair with the rows
C7_BurninTrim ==
    (/\ CalledOn({"get_probable_sample", "get_median_sample"})
     /\ Ndim(Stored) = 3
     /\ outcome.burnin < Stored.shape[2])
        => LET post == PostBurnin(Stored, outcome.burnin)
               rows == outcome.samples
           IN  /\ rows.shape = <<Len(post), Stored.shape[3]>>
               /\ \E f \in Permutations(1..Len(post)) :
                    \A k \in 1..Len(post) :
                        /\ RowOf(rows, k - 1) = SampleAt(Stored, post[f[k]])
                        /\ outcome.op = "get_probable_sample"
                            => /\ Len(outcome.ln_prob.flat) = Len(post)
                               /\ outcome.ln_prob.flat[k] = LnProbAt(StoredLnProb, post[f[k]])

\* the samples and log-probabilities that remain after the burn-in, in
\* order: the rows of a 2-D array, the positions with step >= burnin of a
\* 3-D array
Remaining(a, burnin) ==
    IF Ndim(a) = 3 THEN [k \in 1..Len(PostBurnin(a, burnin)) |->
                            SampleAt(a, PostBurnin(a, burnin)[k])]
    ELSE [k \in 1..a.shape[1] |-> RowOf(a, k - 1)]

RemainingLnProb(a, l, burnin) ==
    IF Ndim(a) = 3 THEN [k \in 1..Len(PostBurnin(a, burnin)) |->
                            LnProbAt(l, PostBurnin(a, burnin)[k])]
    ELSE l.flat

\* C8: get_probable_sample returns the parameter values of the first
\* post-burn-in sample with the maximum stored log-probability, keyed by the
\* parameter names, whenever the burn-in leaves at least one sample
C8_ProbableIsMax ==
    (/\ CalledOn({"get_probable_sample"})
     /\ Remaining(Stored, outcome.burnin) # <<>>)
        => LET attrs == store[SamplesPath(outcome.tag)].attrs
               best == ArgMax(RemainingLnProb(Stored, StoredLnProb, outcome.burnin))
               sample == Remaining(Stored, outcome.burnin)[best]
           IN  /\ outcome.raised = "none"
               /\ \A i \in 0..(Len(sample) - 1) :
                    attrs[Key("parameter", i)] \in DOMAIN outcome.value
               /\ \A i \in 0..(Len(sample) - 1) :
                    outcome.value[attrs[Key("parameter", i)]] = sample[i + 1]

\* the array a with its post-burn-in samples rearranged by the permutation f
\* of their positions
Shuffled(a, burnin, f) ==
    LET p == a.shape[Len(a.shape)]
        post == PostBurnin(a, burnin)
        index(pos) == pos.walker * a.shape[2] + pos.step
        \* the position whose sample moves to the flat sample index q
        source(q) ==
            IF Ndim(a) = 3
            THEN IF \E k \in 1..Len(post) : index(post[k]) = q
                 THEN index(post[f[CHOOSE k \in 1..Len(post) : index(post[k]) = q]])
                 ELSE q
            ELSE f[q + 1] - 1
    IN  NdArray(a.shape,
                [k \in 1..Len(a.flat) |->
                    a.flat[source((k - 1) \div p) * p + ((k - 1) % p) + 1]])

\* C9: get_median_sample returns the same mapping for every permutation of
\* the sample axis (rows of a 2-D array, post-burn-in positions of a 3-D
\* array), each value being the median of the parameter's column
C9_MedianOrderIndependent ==
    (CalledOn({"get_median_sample"}) /\ outcome.raised = "none")
        => LET n == Len(Remaining(Stored, outcome.burnin))
               path == SamplesPath(outcome.tag)
           IN  \A f \in Permutations(1..n) :
                    LET other == [store EXCEPT ![path].data =
                                      Shuffled(Stored, outcome.burnin, f)]
                        r == MedianSample(other, outcome.tag, outcome.burnin)
                    IN  r.raised = "none" /\ r.value = outcome.value

(***************************************************************************)
(* add_object: photometry                                                  *)
(***************************************************************************)
\* a number of a photometry entry, and np.nan; fluxes and dereddened
\* magnitudes are kept as the records of what they are computed from
Num(x) == [num |-> x]
NanValue == [nan |-> TRUE]

\* filters.download_filter(filter_name): the profile of the SVO service
\* for a name it knows, (None, None, None) for any other name
DownloadFilter(filter_name) ==
    [filter_name |-> filter_name, filename |-> <<>>, detector_type |-> "photon",
     download |-> IF filter_name = "Paranal/NACO.Lp"
                  THEN [curve |-> <<<<3, 0>>, <<4, 1>>, <<5, 0>>>>, det_type |-> "energy"]
                  ELSE [curve |-> <<>>, det_type |-> "None"]]

\* the dataset of the filter profile can be read from the store
HasFilter(s, filter_name) ==
    Exists(s, FilterPath(filter_name)) /\ s[FilterPath(filter_name)].kind = "dataset"

\* isinstance(deredden, float) or name in deredden, with the A_V it gives
\* (deredden is the record of its kind, its A_V and the names of a dict)
ExtinctionOf(deredden, name) ==
    IF deredden.kind = "float" \/ name \in deredden.names
    THEN <<[a_v |-> deredden.av, of |-> name]>>
    ELSE <<>>

RECURSIVE MagnitudesToFlux(_, _, _, _, _)
\* for mag_item in app_mag: dered_phot[mag_item], flux[mag_item] and
\* error[mag_item].  The profile of a dereddened filter is read outside the
\* try block; inside it a filter that is not in the store gives the
\* KeyError that is answered with a warning and NaNs, once for a tuple and
\* once per item of a list.  acc holds the fluxes and the warnings so far
MagnitudesToFlux(s, app_mag, deredden, i, acc) ==
    IF i > Len(app_mag) THEN acc
    ELSE
    LET item == app_mag[i]
        dered == ExtinctionOf(deredden, item.filter)
        known == HasFilter(s, item.filter)
        one(pair) == IF known
                     THEN [flux |-> [zero_point |-> item.filter, mag |-> pair[1],
                                     dered |-> dered],
                           error |-> [zero_point |-> item.filter, mag |-> pair[1],
                                      mag_err |-> pair[2]]]
                     ELSE [flux |-> NanValue, error |-> NanValue]
        n_warn == IF known THEN 0 ELSE Len(item.pairs)
    IN  IF dered # <<>> /\ ~known
        THEN [acc EXCEPT !.raised = "KeyError"]
        ELSE MagnitudesToFlux(s, app_mag, deredden, i + 1,
                 [raised |-> "none",
                  phot |-> Append(acc.phot, [k \in 1..Len(item.pairs) |-> one(item.pairs[k])]),
                  warnings |-> acc.warnings
                                   \o [k \in 1..n_warn |-> <<item.filter, "not available">>]])

\* the node that h5py addresses as f'objects/{object_name}/{name}'
ObjectPath(object_name, name) == <<"objects", object_name>> \o Split(name)

\* every entry is stored with n_phot = 1
NPhotOne(item) == 1

\* n_phot = 1 for a tuple, n_phot = len(app_mag[mag_item]) for a list
NPhot(item) == IF item.kind = "tuple" THEN 1 ELSE Len(item.pairs)

RECURSIVE WritePhotometry(_, _, _, _, _, _)
\* for mag_item in app_mag: delete the entry of the filter, then
\* create_dataset of [mag, mag error, flux, flux error] with n_phot.  The
\* dereddened magnitude of a tuple is assigned to app_mag[mag_item], in the
\* dictionary of the caller, before it is stored; without an extinction
\* the value assigned is the value that was there
WritePhotometry(s, object_name, app_mag, deredden, phot, i) ==
    IF i > Len(app_mag) THEN [st |-> s, raised |-> "none", app_mag |-> app_mag]
    ELSE
    LET item == app_mag[i]
        path == ObjectPath(object_name, item.filter)
        dered == ExtinctionOf(deredden, item.filter)
        s1 == DelIfExists(s, path)
        k == Len(item.pairs)
        mag(j) == IF dered = <<>> THEN Num(item.pairs[j][1])
                  ELSE [mag |-> item.pairs[j][1], dered |-> dered]
        rows == [j \in 1..k |-> mag(j)] \o [j \in 1..k |-> Num(item.pairs[j][2])]
                    \o [j \in 1..k |-> phot[i][j].flux] \o [j \in 1..k |-> phot[i][j].error]
        data == IF item.kind = "tuple" THEN NdArray(<<4>>, rows) ELSE NdArray(<<4, k>>, rows)
        assigned == IF item.kind = "tuple" /\ dered # <<>>
                    THEN [app_mag EXCEPT ![i].pairs =
                             <<<<[mag |-> item.pairs[1][1], dered |-> dered], item.pairs[1][2]>>>>]
                    ELSE app_mag
    IN  IF ~CanCreate(s1, path) THEN [st |-> s1, raised |-> "ValueError", app_mag |-> assigned]
        ELSE WritePhotometry(SetAttr(CreateDataset(s1, path, data), path, "n_phot", NPhot(item)),
                             object_name, assigned, deredden, phot, i + 1)

RECURSIVE WriteFluxDensity(_, _, _, _)
\* for flux_item in flux_density: delete the entry of the filter, then
\* create_dataset of [nan, nan, flux, flux error] with n_phot = 1
WriteFluxDensity(s, object_name, flux_density, i) ==
    IF i > Len(flux_density) THEN [st |-> s, raised |-> "none"]
    ELSE
    LET item == flux_density[i]
        path == ObjectPath(object_name, item.filter)
        s1 == DelIfExists(s, path)
        data == NdArray(<<4>>, <<NanValue, NanValue, Num(item.pair[1]), Num(item.pair[2])>>)
    IN  IF ~CanCreate(s1, path) THEN [st |-> s1, raised |-> "ValueError"]
        ELSE WriteFluxDensity(SetAttr(CreateDataset(s1, path, data), path, "n_phot", 1),
                              object_name, flux_density, i + 1)

(***************************************************************************)
(* add_object: spectra and covariance matrices                             *)
(***************************************************************************)
\* A file is a record with its format: "ascii" with the array data that
\* np.loadtxt returns, "binary" for a file np.loadtxt cannot decode, "fits"
\* with the arrays hdus of its HDUs, and "gravity" for a FITS file with
\* INSTRU = GRAVITY and the columns wavelength, flux and covariance.

\* np.sqrt of a variance that is a square
Sqrt(x) == CHOOSE r \in 0..x : r * r = x

\* np.diag(a) of a 2-D array
Diag(a) ==
    [i \in 1..(IF a.shape[1] < a.shape[2] THEN a.shape[1] ELSE a.shape[2]) |->
        a.flat[(i - 1) * a.shape[2] + i]]

\* the first HDU that the loop over hdulist accepts, 0 if there is none
\* (accepted[i] tells whether HDU i is accepted)
FirstHdu(accepted) ==
    IF \E i \in 1..Len(accepted) : accepted[i]
    THEN CHOOSE i \in 1..Len(accepted) : accepted[i] /\ \A j \in 1..(i - 1) : ~accepted[j]
    ELSE 0

\* read_spec[key] of the first loop over spectrum.items(), dereddened when
\* deredden is a float or names the key; dered is <<>> or the extinction
ReadSpectrum(file, dered) ==
    LET ok(d) == Ndim(d) = 2 /\ (d.shape[1] = 3 \/ d.shape[2] = 3)
        hdu == IF file.format = "fits" THEN FirstHdu([i \in 1..Len(file.hdus) |-> ok(file.hdus[i])]) ELSE 0
        n == IF file.format = "gravity" THEN Len(file.wavelength) ELSE 0
        data == IF file.format = "gravity"
                THEN NdArray(<<n, 3>>,
                             [k \in 1..(3 * n) |->
                                 LET i == ((k - 1) \div 3) + 1 IN
                                 IF (k - 1) % 3 = 0 THEN file.wavelength[i]
                                 ELSE IF (k - 1) % 3 = 1 THEN file.flux[i]
                                 ELSE Sqrt(Diag(file.covariance)[i])])
                ELSE IF file.format = "fits" THEN file.hdus[hdu]
                ELSE file.data
    IN  IF file.format = "binary" THEN [raised |-> "ValueError"]
        ELSE IF file.format = "fits" /\ hdu = 0 THEN [raised |-> "ValueError"]
        ELSE IF file.format = "ascii" /\ ~ok(data) THEN [raised |-> "ValueError"]
        ELSE IF data.shape[2] < 3 \/ data.shape[1] = 0 THEN [raised |-> "IndexError"]
        ELSE [raised |-> "none",
              data |-> IF dered = <<>> THEN data
                       ELSE [shape |-> data.shape, flat |-> data.flat, dered_flux |-> dered]]

\* data_util.correlation_to_covariance(cor_matrix, spec_sigma):
\* cov[i, j] = cor[i, j]*sigma[i]*sigma[j]
CorrelationToCovariance(cor, sigma) ==
    NdArray(cor.shape,
            [k \in 1..Len(cor.flat) |->
                cor.flat[k] * sigma[((k - 1) \div cor.shape[2]) + 1]
                            * sigma[((k - 1) % cor.shape[2]) + 1]])

\* a matrix with ones along the diagonal is taken for a correlation matrix
FromCorrelation(data, sigma) ==
    IF \A i \in 1..Len(Diag(data)) : Diag(data)[i] = 1
    THEN IF data.shape[1] > Len(sigma) \/ data.shape[2] > Len(sigma)
         THEN [raised |-> "IndexError"]
         ELSE [raised |-> "none", data |-> <<CorrelationToCovariance(data, sigma)>>]
    ELSE [raised |-> "none", data |-> <<data>>]

\* the matrix that the file of a covariance matrix holds for the spectrum
\* spec: the COVARIANCE column of the GRAVITY format, the first square HDU
\* with the rows of the spectrum, or the array of a text file
LoadCovariance(file, spec) ==
    LET square(d) == Ndim(d) = 2 /\ d.shape[1] = d.shape[2]
        fits(d) == square(d) /\ d.shape[1] = spec.shape[1]
        hdu == IF file.format = "fits"
               THEN FirstHdu([i \in 1..Len(file.hdus) |-> fits(file.hdus[i])]) ELSE 0
    IN  IF file.format = "gravity" THEN [raised |-> "none", data |-> file.covariance]
        ELSE IF file.format = "fits"
        THEN IF hdu = 0 THEN [raised |-> "ValueError"]
             ELSE [raised |-> "none", data |-> file.hdus[hdu]]
        ELSE IF file.format = "binary" THEN [raised |-> "ValueError"]
        ELSE IF Ndim(file.data) # 2 \/ ~(file.data.shape[1] = 3 \/ file.data.shape[2] = 3)
        THEN [raised |-> "ValueError"]
        ELSE [raised |-> "none", data |-> file.data]

\* read_cov[key] of the second loop over spectrum.items(): cov is <<>> for
\* None or holds the file, spec is read_spec[key]; the matrix of a GRAVITY
\* file is taken as it is
ReadCovariance(cov, spec) ==
    LET matrix == LoadCovariance(cov[1], spec) IN
    IF cov = <<>> THEN [raised |-> "none", data |-> <<>>]
    ELSE IF matrix.raised # "none" THEN matrix
    ELSE IF cov[1].format = "gravity" THEN [raised |-> "none", data |-> <<matrix.data>>]
    ELSE FromCorrelation(matrix.data, ColumnOf(spec, 2))

RECURSIVE Det(_, _)
\* the determinant of the n x n matrix with the rows m
Det(m, n) ==
    IF n = 0 THEN 1
    ELSE LET minor(j) == [r \in 1..(n - 1) |->
                             [c \in 1..(n - 1) |-> m[r + 1][IF c < j THEN c ELSE c + 1]]]
             RECURSIVE sum(_)
             sum(j) == IF j > n THEN 0
                       ELSE (IF j % 2 = 1 THEN 1 ELSE 0 - 1) * m[1][j] * Det(minor(j), n - 1)
                            + sum(j + 1)
         IN  sum(1)

\* np.linalg.inv(a) exists
Invertible(a) ==
    /\ Ndim(a) = 2 /\ a.shape[1] = a.shape[2]
    /\ Det([i \in 1..a.shape[1] |-> RowOf(a, i - 1)], a.shape[1]) # 0

RECURSIVE WriteSpectra(_, _, _, _, _, _)
\* the third loop over spectrum.items(): the datasets spectrum, covariance
\* and inv_covariance of every key, and the attribute specres of its group
WriteSpectra(s, object_name, spectrum, read_spec, read_cov, i) ==
    IF i > Len(spectrum) THEN [st |-> s, raised |-> "none"]
    ELSE
    LET base == <<"objects", object_name, "spectrum", spectrum[i].key>>
        s1 == CreateDataset(s, Append(base, "spectrum"), read_spec[i])
        s2 == IF read_cov[i] = <<>> THEN s1
              ELSE CreateDataset(s1, Append(base, "covariance"), read_cov[i][1])
        s3 == IF read_cov[i] = <<>> THEN s2
              ELSE CreateDataset(s2, Append(base, "inv_covariance"),
                                 [shape |-> read_cov[i][1].shape, flat |-> read_cov[i][1].flat,
                                  inverse |-> TRUE])
        specres == IF spectrum[i].specres = <<>> THEN 0 ELSE spectrum[i].specres[1]
    IN  IF ~CanCreate(s, Append(base, "spectrum")) THEN [st |-> s, raised |-> "ValueError"]
        ELSE IF read_cov[i] # <<>> /\ ~Invertible(read_cov[i][1])
        THEN [st |-> s2, raised |-> "LinAlgError"]
        ELSE WriteSpectra(SetAttr(s3, base, "specres", specres),
                          object_name, spectrum, read_spec, read_cov, i + 1)

\* if spectrum is not None: the group of the spectra is deleted, all
\* spectra are read, then all covariance matrices, then all are written
ObjectSpectra(s, object_name, spectrum, deredden) ==
    LET s1 == DelIfExists(s, <<"objects", object_name, "spectrum">>)
        n == Len(spectrum)
        spec == [i \in 1..n |->
                    ReadSpectrum(spectrum[i].file, ExtinctionOf(deredden, spectrum[i].key))]
        read(i) == spec[i].raised = "none"
        cov == [i \in 1..n |->
                   IF read(i) THEN ReadCovariance(spectrum[i].cov, spec[i].data)
                   ELSE [raised |-> "none", data |-> <<>>]]
    IN  IF \E i \in 1..n : ~read(i)
        THEN [st |-> s1, raised |-> spec[CHOOSE i \in 1..n : ~read(i) /\ \A j \in 1..(i - 1) : read(j)].raised]
        ELSE IF \E i \in 1..n : cov[i].raised # "none"
        THEN [st |-> s1,
              raised |-> cov[CHOOSE i \in 1..n : /\ cov[i].raised # "none"
                                                 /\ \A j \in 1..(i - 1) : cov[j].raised = "none"].raised]
        ELSE WriteSpectra(s1, object_name, spectrum, [i \in 1..n |-> spec[i].data],
                          [i \in 1..n |-> cov[i].data], 1)

(***************************************************************************)
(* add_object, step by step                                                *)
(***************************************************************************)
\* add_spectra(spec_library): the dispatch on the name of the library; the
\* reader of a library stores its data under its own name ("vega" under
\* spectra/calibration/vega), a name without a reader stores nothing
AddSpectraStore(s, spec_library) ==
    LET s1 == EnsureGroup(s, <<"spectra">>)
        s2 == DelIfExists(s1, <<"spectra">> \o Split(spec_library))
        lib(n, name) == StrPrefix(spec_library, n) = name
        put(path) == CreateDataset(DelIfExists(s2, path), path, Dataset1D(<<path[Len(path)]>>))
    IN  IF lib(5, "vega") THEN put(CalibrationPath("vega"))
        ELSE IF lib(5, "irtf") THEN put(<<"spectra", "irtf">>)
        ELSE IF lib(5, "spex") THEN put(<<"spectra", "spex">>)
        ELSE IF lib(12, "kesseli+2017") THEN put(<<"spectra", "kesseli+2017">>)
        ELSE IF lib(13, "bonnefoy+2014") THEN put(<<"spectra", "bonnefoy+2014">>)
        ELSE IF lib(11, "allers+2013") THEN put(<<"spectra", "allers+2013">>)
        ELSE s2

\* the statements of add_object from 'objects' not in h5_file to
\* h5_file.close(): a is the record of the arguments, with <<>> for None,
\* app_mag, flux_density and spectrum as the lists of the dictionary items
ObjectStore(s, a) ==
    LET name == a.object_name
        s1 == EnsureGroup(EnsureGroup(s, <<"objects">>), <<"objects", name>>)
        s2 == IF a.distance = <<>> THEN s1
              ELSE CreateDataset(DelIfExists(s1, <<"objects", name, "distance">>),
                                 <<"objects", name, "distance">>, Dataset1D(a.distance[1]))
        none == [raised |-> "none", phot |-> <<>>, warnings |-> <<>>]
        flux == IF a.app_mag = <<>> THEN none
                ELSE MagnitudesToFlux(s2, a.app_mag[1], a.deredden, 1, none)
        phot == IF a.app_mag = <<>> \/ flux.raised # "none"
                THEN [st |-> s2, raised |-> flux.raised]
                ELSE WritePhotometry(s2, name, a.app_mag[1], a.deredden, flux.phot, 1)
        density == IF a.flux_density = <<>> THEN <<>> ELSE a.flux_density[1]
        dens == IF phot.raised # "none" THEN phot
                ELSE WriteFluxDensity(phot.st, name, density, 1)
        ignored == {i \in 1..Len(density) : ExtinctionOf(a.deredden, density[i].filter) # <<>>}
        spec == IF dens.raised # "none" \/ a.spectrum = <<>> THEN dens
                ELSE ObjectSpectra(dens.st, name, a.spectrum[1], a.deredden)
    IN  [st |-> spec.st, raised |-> spec.raised,
         app_mag |-> IF a.app_mag = <<>> THEN <<>>
                     ELSE IF flux.raised # "none" THEN a.app_mag
                     ELSE <<phot.app_mag>>,
         warnings |-> flux.warnings
                      \o (IF phot.raised # "none" THEN <<>>
                          ELSE [j \in 1..Cardinality(ignored) |->
                                   <<density[CHOOSE i \in ignored :
                                                 Cardinality({k \in ignored : k < i}) = j - 1].filter,
                                     "deredden ignored">>])]

\* what add_object looks up before it writes: the Vega spectrum and the
\* filter of every magnitude, then the same for the flux densities
ObjectChecks(a) ==
    LET names(dict) == IF dict = <<>> THEN <<>>
                       ELSE <<"vega">> \o [i \in 1..Len(dict[1]) |-> dict[1][i].filter]
    IN  names(a.app_mag) \o names(a.flux_density)

\* the first lookup from number k on that does not find its path, or 0
NextAbsent(s, checks, k) ==
    LET absent(i) == IF checks[i] = "vega" THEN ~Exists(s, CalibrationPath("vega"))
                     ELSE ~Exists(s, FilterPath(checks[i]))
    IN  IF \E i \in k..Len(checks) : absent(i)
        THEN CHOOSE i \in k..Len(checks) : absent(i) /\ \A j \in k..(i - 1) : ~absent(j)
        ELSE 0

\* h5_file = h5py.File(self.database, 'a'); passed is the dictionary of
\* magnitudes as the caller made it, calls the number of calls it has
\* been passed to
AddObjectOpen(args) ==
    /\ pc = "idle"
    /\ handles < MaxHandles
    /\ \E a \in args :
        loc' = [op |-> "add_object", args |-> a, k |-> 1, before |-> store, base |-> handles,
                passed |-> a.app_mag, calls |-> 1]
    /\ handles' = handles + 1
    /\ pc' = "object"
    /\ outcome' = [op |-> "none", raised |-> "none"]
    /\ UNCHANGED store

\* self.add_spectra('vega') or self.add_filter(item) opens the file
AddObjectNested ==
    /\ pc = "object"
    /\ NextAbsent(store, ObjectChecks(loc.args), loc.k) # 0
    /\ handles' = handles + 1
    /\ pc' = "nested"
    /\ loc' = [loc EXCEPT !.k = NextAbsent(store, ObjectChecks(loc.args), loc.k)]
    /\ UNCHANGED <<store, outcome>>

\* the nested call writes, closes the file and returns
AddObjectNestedReturn ==
    /\ pc = "nested"
    /\ store' = IF ObjectChecks(loc.args)[loc.k] = "vega" THEN AddSpectraStore(store, "vega")
                ELSE AddFilterStore(store, DownloadFilter(ObjectChecks(loc.args)[loc.k])).st
    /\ handles' = handles - 1
    /\ pc' = "object"
    /\ loc' = [loc EXCEPT !.k = loc.k + 1]
    /\ UNCHANGED outcome

\* the rest of add_object; an exception leaves it before h5_file.close()
AddObjectBody ==
    /\ pc = "object"
    /\ NextAbsent(store, ObjectChecks(loc.args), loc.k) = 0
    /\ LET r == ObjectStore(store, loc.args) IN
        /\ store' = r.st
        /\ handles' = IF r.raised = "none" THEN handles - 1 ELSE handles
        /\ outcome' = [op |-> "add_object", tag |-> loc.args.object_name,
                       raised |-> r.raised, warnings |-> r.warnings, args |-> loc.args,
                       before |-> loc.before, app_mag |-> r.app_mag,
                       passed |-> loc.passed, calls |-> loc.calls]
    /\ pc' = "idle"
    /\ loc' = NoLoc

(***************************************************************************)
(* The calls of add_object                                                 *)
(***************************************************************************)
\* deredden=None, a dictionary of names with one A_V, a float
NoDeredden == [kind |-> "dict", av |-> 0, names |-> {}]
DereddenOf(names) == [kind |-> "dict", av |-> 2, names |-> names]
DereddenAll == [kind |-> "float", av |-> 2, names |-> {}]

\* app_mag items: a tuple (mag, error), or a list of k such tuples
MagTuple(filter, mag) == [filter |-> filter, kind |-> "tuple", pairs |-> <<<<mag, 1>>>>]
MagList(filter, k) ==
    [filter |-> filter, kind |-> "list", pairs |-> [j \in 1..k |-> <<10 + j, 1>>]]

ObjectArgsOf(distance, app_mag, flux_density, spectrum, deredden) ==
    [object_name |-> "beta Pic b", distance |-> distance, app_mag |-> app_mag,
     flux_density |-> flux_density, spectrum |-> spectrum, deredden |-> deredden]

\* calls with magnitudes: a filter of the SVO service and one it does not
\* have, as tuples and as lists, with and without dereddening
MagnitudeArgs ==
    {ObjectArgsOf(<<>>, <<x[1]>>, <<>>, <<>>, x[2]) :
        x \in {<<<<MagTuple("Paranal/NACO.Lp", 11)>>, d>> :
                    d \in {NoDeredden, DereddenOf({"Paranal/NACO.Lp"}), DereddenAll}}
               \cup {<<<<MagTuple("Fake/Filter", 15)>>, d>> :
                        d \in {NoDeredden, DereddenOf({"Fake/Filter"})}}
               \cup {<<<<MagTuple("Fake/Filter", 15), MagTuple("Paranal/NACO.Lp", 11)>>,
                       NoDeredden>>}
               \cup {<<<<MagList("Paranal/NACO.Lp", k)>>, NoDeredden>> : k \in 0..MaxPhot}
               \cup {<<<<MagList(f, MaxPhot)>>, DereddenOf({"Paranal/NACO.Lp"})>> :
                        f \in {"Paranal/NACO.Lp", "Fake/Filter"}}}

\* calls with a distance, with flux densities, and with nothing
DensityArgs ==
    {ObjectArgsOf(<<>>, <<>>, <<>>, <<>>, NoDeredden),
     ObjectArgsOf(<<<<19, 1>>>>, <<>>, <<>>, <<>>, NoDeredden),
     ObjectArgsOf(<<<<20, 1>>>>, <<<<MagTuple("Paranal/NACO.Lp", 11)>>>>, <<>>, <<>>, NoDeredden)}
    \cup {ObjectArgsOf(<<>>, m, <<<<[filter |-> f, pair |-> <<3, 1>>]>>>>, <<>>, d) :
            m \in {<<>>, <<<<MagTuple("Paranal/NACO.Lp", 11)>>>>,
                   <<<<MagList("Paranal/NACO.Lp", MaxPhot)>>>>},
            f \in {"Paranal/NACO.Lp", "Paranal/NACO.Mp"},
            d \in {NoDeredden, DereddenOf({"Paranal/NACO.Lp"})}}

\* spectrum files: three wavelengths with the errors 2, 3, 2 as text, two
\* wavelengths with the errors 2, 3 in the second HDU of a FITS file and in
\* the GRAVITY format, and files that hold no spectrum
SpectrumFiles ==
    {[format |-> "ascii", data |-> NdArray(<<3, 3>>, <<1, 5, 2, 2, 5, 3, 3, 5, 2>>)],
     [format |-> "ascii", data |-> NdArray(<<3>>, <<1, 5, 2>>)],
     [format |-> "binary", data |-> NdArray(<<0>>, <<>>)],
     [format |-> "fits", hdus |-> <<NdArray(<<2>>, <<0, 0>>),
                                    NdArray(<<2, 3>>, <<1, 5, 2, 2, 5, 3>>)>>],
     [format |-> "fits", hdus |-> <<NdArray(<<2>>, <<0, 0>>)>>],
     [format |-> "gravity", wavelength |-> <<1, 2>>, flux |-> <<5, 5>>,
      covariance |-> NdArray(<<2, 2>>, <<4, 0, 0, 9>>)]}

\* matrices with n rows: the identity, the matrix of ones, and covariance
\* matrices with variances of 4
Matrices(n) ==
    {NdArray(<<n, n>>, [k \in 1..(n * n) |-> IF (k - 1) \div n = (k - 1) % n THEN d ELSE o]) :
        d \in {1, 4}, o \in {0, 1}}

\* covariance files of every format, and files that hold no matrix
CovarianceFiles ==
    {[format |-> "ascii", data |-> m] : m \in Matrices(3) \cup {NdArray(<<2, 2>>, <<1, 0, 0, 1>>)}}
    \cup {[format |-> "binary", data |-> NdArray(<<0>>, <<>>)]}
    \cup {[format |-> "fits", hdus |-> <<NdArray(<<2>>, <<0, 0>>), m>>] : m \in Matrices(2)}
    \cup {[format |-> "gravity", wavelength |-> <<1, 2>>, flux |-> <<5, 5>>, covariance |-> m] :
            m \in {NdArray(<<2, 2>>, <<1, 0, 0, 1>>), NdArray(<<2, 2>>, <<4, 0, 0, 9>>)}}

\* calls with one spectrum: with every covariance file, with a distance and
\* a magnitude, and dereddened
SpectrumOf(file, cov, specres) ==
    <<<<[key |-> "SPHERE", file |-> file, cov |-> cov, specres |-> specres]>>>>

SpectrumArgs ==
    {ObjectArgsOf(<<>>, <<>>, <<>>, SpectrumOf(f, <<c>>, <<>>), NoDeredden) :
        f \in SpectrumFiles, c \in CovarianceFiles}
    \cup {ObjectArgsOf(<<<<21, 1>>>>, <<<<MagTuple("Paranal/NACO.Lp", 13)>>>>, <<>>,
                       SpectrumOf(f, <<>>, <<>>), NoDeredden) : f \in SpectrumFiles}
    \cup {ObjectArgsOf(<<>>, <<>>, <<>>, SpectrumOf(f, <<>>, <<30>>), DereddenOf({"SPHERE"})) :
            f \in SpectrumFiles}

\* the photometry of an object
NextObject ==
    \/ AddObjectOpen(MagnitudeArgs \cup DensityArgs)
    \/ AddObjectNested
    \/ AddObjectNestedReturn
    \/ AddObjectBody

SpecObject == Init /\ [][NextObject]_vars

\* the spectra of an object
NextSpectrum ==
    \/ AddObjectOpen(SpectrumArgs)
    \/ AddObjectNested
    \/ AddObjectNestedReturn
    \/ AddObjectBody

SpecSpectrum == Init /\ [][NextSpectrum]_vars

(***************************************************************************)
(* Properties of add_object                                                *)
(***************************************************************************)
\* the SVO service has no profile for the filter
Unresolved(filter) == DownloadFilter(filter).download.curve = <<>>

\* the rows from..to of the photometry entry of a filter, as stored
EntryRows(object_name, item, from, to) ==
    LET flat == store[ObjectPath(object_name, item.filter)].data.flat
        k == Len(flat) \div 4
    IN  SubSeq(flat, (from - 1) * k + 1, to * k)

\* the number of warnings of a call about one filter
WarningsAbout(filter) ==
    Cardinality({i \in 1..Len(outcome.warnings) : outcome.warnings[i][1] = filter})

\* C11: a call of add_object with a magnitude for a filter that cannot be
\* resolved returns normally, stores the entry of that filter with the
\* given magnitude error and NaN for the flux and its error, stores the
\* other filters of the call with their fluxes, and warns exactly once
\* about that filter, also for a dereddened filter and a list of pairs
C11_MissingFilterDegrades ==
    outcome.op = "add_object" /\ outcome.args.app_mag # <<>> =>
        LET app_mag == outcome.args.app_mag[1] IN
        \A i \in 1..Len(app_mag) :
            Unresolved(app_mag[i].filter) =>
                /\ outcome.raised = "none"
                /\ Exists(store, ObjectPath(outcome.tag, app_mag[i].filter))
                /\ EntryRows(outcome.tag, app_mag[i], 2, 2)
                       = [j \in 1..Len(app_mag[i].pairs) |-> Num(app_mag[i].pairs[j][2])]
                /\ EntryRows(outcome.tag, app_mag[i], 3, 4)
                       = [j \in 1..(2 * Len(app_mag[i].pairs)) |-> NanValue]
                /\ WarningsAbout(app_mag[i].filter) = 1
                /\ \A j \in 1..Len(app_mag) :
                       ~Unresolved(app_mag[j].filter) =>
                           /\ Exists(store, ObjectPath(outcome.tag, app_mag[j].filter))
                           /\ \A x \in 1..Len(EntryRows(outcome.tag, app_mag[j], 3, 4)) :
                                  EntryRows(outcome.tag, app_mag[j], 3, 4)[x] # NanValue

(***************************************************************************)
(* add_model                                                               *)
(***************************************************************************)
\* the branches of the if/elif chain on model, in their order
ModelBranches ==
    <<"ames-cond", "ames-dusty", "atmo", "blackbody", "bt-cond", "bt-cond-feh", "bt-settl",
      "bt-settl-cifist", "bt-nextgen", "drift-phoenix", "morley-2012", "petitcode-cool-clear",
      "petitcode-cool-cloudy", "petitcode-hot-clear", "petitcode-hot-cloudy", "exo-rem">>

\* the names in the message of the ValueError of the else branch
ModelChoices ==
    <<"ames-cond", "ames-dusty", "atmo", "bt-settl", "bt-nextgen", "drift-phoexnix",
      "petitcode-cool-clear", "petitcode-cool-cloudy", "petitcode-hot-clear",
      "petitcode-hot-cloudy", "exo-rem", "bt-settl-cifist", "bt-cond", "bt-cond-feh",
      "blackbody">>

\* add_model(model): the reader of the branch stores the spectra of the
\* model under models/{model}; the else branch raises before
\* h5_file.close()
AddModelStore(s, model) ==
    LET s1 == EnsureGroup(s, <<"models">>)
        path == <<"models", model>>
    IN  IF InList(model, ModelBranches)
        THEN [st |-> CreateDataset(DelIfExists(s1, path), path, Dataset1D(<<model>>)),
              raised |-> "none", leak |-> FALSE, choices |-> <<>>]
        ELSE [st |-> s1, raised |-> "ValueError", leak |-> TRUE, choices |-> ModelChoices]

AddModel(models) ==
    /\ pc = "idle"
    /\ \E model \in models :
        LET r == AddModelStore(store, model) IN
        /\ CanLeak(r)
        /\ store' = r.st
        /\ handles' = Leaked(r)
        /\ outcome' = [op |-> "add_model", tag |-> model, raised |-> r.raised,
                       choices |-> r.choices]
    /\ UNCHANGED <<pc, loc>>

\* the names that add_model is called with
ModelCalls ==
    {"ames-cond", "blackbody", "bt-settl", "drift-phoenix", "morley-2012", "exo-rem",
     "drift-phoexnix", "sonora"}

NextModel == AddModel(ModelCalls)

SpecModel == Init /\ [][NextModel]_vars

\* every name of a branch, of the message and of a call
ModelNames ==
    {ModelBranches[i] : i \in 1..Len(ModelBranches)}
    \cup {ModelChoices[i] : i \in 1..Len(ModelChoices)} \cup ModelCalls

\* C12: a call of add_model with a name that is not registered fails, and
\* the names listed in its error message are exactly the names that
\* add_model accepts
C12_ChoicesAreAccepted ==
    outcome.op = "add_model" =>
        /\ outcome.raised # "none" <=> ~InList(outcome.tag, ModelBranches)
        /\ outcome.raised # "none" =>
               \A model \in ModelNames :
                   InList(model, outcome.choices)
                       <=> AddModelStore(store, model).raised = "none"

(***************************************************************************)
(* add_isochrones, add_photometry, add_spectra, get_pt_profiles            *)
(***************************************************************************)
RECURSIVE SortRows(_, _, _)
\* isochrones[np.argsort(isochrones[:, 0]), :]: the rows from number i on
\* are inserted into sorted, each behind the rows that are not older
SortRows(rows, i, sorted) ==
    IF i > Len(rows) THEN sorted
    ELSE LET k == Cardinality({j \in 1..Len(sorted) : sorted[j][1] <= rows[i][1]})
         IN  SortRows(rows, i + 1,
                      SubSeq(sorted, 1, k) \o <<rows[i]>> \o SubSeq(sorted, k + 1, Len(sorted)))

\* the dataset isochrones/{tag}/evolution with its attribute model
PutEvolution(s, tag, rows, model) ==
    LET path == <<"isochrones", tag, "evolution">>
    IN  SetAttr(CreateDataset(s, path, Dataset1D(rows)), path, "model", model)

\* isochrones.add_marleau(database, tag, file_name): the rows of the file
\* are (mass, age in Gyr), the rows of the array (age in Myr, mass)
AddMarleau(s, tag, file) ==
    PutEvolution(s, tag,
                 SortRows([i \in 1..Len(file) |-> <<1000 * file[i][2], file[i][1]>>], 1, <<>>),
                 "marleau")

\* add_isochrones(filename, tag, model); isochrones.py defines no
\* add_baraffe
AddIsochronesStore(s, a) ==
    LET s1 == EnsureGroup(s, <<"isochrones">>)
        s2 == DelIfExists(s1, <<"isochrones", a.tag>>)
    IN  IF StrPrefix(a.model, 7) = "baraffe"
        THEN [st |-> s2, raised |-> "AttributeError", leak |-> TRUE]
        ELSE IF StrPrefix(a.model, 7) = "marleau"
        THEN IF CanCreate(s2, <<"isochrones", a.tag, "evolution">>)
             THEN [st |-> AddMarleau(s2, a.tag, a.filename), raised |-> "none", leak |-> FALSE]
             ELSE [st |-> s2, raised |-> "ValueError", leak |-> TRUE]
        ELSE [st |-> s2, raised |-> "none", leak |-> FALSE]

\* add_photometry(phot_library)
AddPhotometryStore(s, phot_library) ==
    LET s1 == EnsureGroup(s, <<"photometry">>)
        s2 == DelIfExists(s1, <<"photometry">> \o Split(phot_library))
        put(path) == CreateDataset(DelIfExists(s2, path), path, Dataset1D(<<path[Len(path)]>>))
    IN  IF StrPrefix(phot_library, 7) = "vlm-plx" THEN put(<<"photometry", "vlm-plx">>)
        ELSE IF StrPrefix(phot_library, 7) = "leggett" THEN put(<<"photometry", "leggett">>)
        ELSE s2

\* the parameters that the branch of a P-T profile reads from sample i
ProfileParams(pt_profile, i) ==
    IF pt_profile = "molliere"
    THEN {"t1", "t2", "t3", "log_delta", "alpha", "tint", "metallicity", "c_o_ratio"}
    ELSE IF pt_profile = "mod-molliere"
    THEN {"log_delta", "alpha", "tint", "metallicity", "c_o_ratio"}
    ELSE IF pt_profile \in {"free", "monotonic"} THEN {Key("t", i)}
    ELSE {}

\* a column of temp: the function that computes it and its arguments; the
\* columns of np.zeros are ZeroColumn
ZeroColumn == [fn |-> "zeros", args |-> <<>>]

\* temp[:, i] of the molliere and mod-molliere branches
PtRetModel(pt_profile, item, index) ==
    [fn |-> "pt_ret_model",
     args |-> (IF pt_profile = "molliere"
               THEN <<item[index["t1"]], item[index["t2"]], item[index["t3"]]>> ELSE <<>>)
              \o <<item[index["log_delta"]], item[index["alpha"]], item[index["tint"]],
                   item[index["metallicity"]], item[index["c_o_ratio"]]>>]

\* knot_temp of sample i as the loop over j builds it, and pt_smooth
PtSplineInterp(item, index, i) ==
    [fn |-> "pt_spline_interp",
     args |-> [j \in 1..NKnots |-> item[index[Key("t", i)]]]
              \o <<IF "pt_smooth" \in DOMAIN index THEN item[index["pt_smooth"]] ELSE 0>>]

\* get_pt_profiles(tag, random=None, out_file=None): temp has one column
\* per sample, of zeros until the branch of the profile fills it; the
\* samples are taken in their order, and the call ends at the first one
\* whose branch raises
GetPtProfiles(s, tag) ==
    LET p == SamplesPath(tag)
        attrs == s[p].attrs
        samples == s[p].data
        n == samples.shape[1]
        n_param == NParam(attrs)
        param == ParamList(attrs, n_param)
        names == {param[j] : j \in 1..n_param}
        param_index == [name \in names |->
                           CHOOSE j \in 1..n_param :
                               param[j] = name /\ \A k \in (j + 1)..n_param : param[k] # name]
        pt_profile == attrs["pt_profile"]
        unknown == {i \in 0..(n - 1) : ~(ProfileParams(pt_profile, i) \subseteq names)}
        short == {i \in 0..(n - 1) : \E name \in ProfileParams(pt_profile, i) \cap names :
                                        param_index[name] > samples.shape[2]}
        fail(raised, leak) == [raised |-> raised, leak |-> leak, temp |-> <<>>]
    IN  IF ~Exists(s, p) THEN fail("KeyError", TRUE)
        ELSE IF ~({"spectrum", "pt_profile"} \subseteq DOMAIN attrs) THEN fail("KeyError", TRUE)
        ELSE IF attrs["spectrum"] # "petitradtrans" THEN fail("ValueError", TRUE)
        ELSE IF ~HasNParam(attrs) THEN fail("UnboundLocalError", TRUE)
        ELSE IF ~HasParams(attrs, n_param) THEN fail("KeyError", TRUE)
        ELSE IF pt_profile \in {"free", "monotonic"} /\ n > 0
        THEN \* temp[:, j] with j = NKnots - 1 left by the loop over the knots
             IF 0 \in unknown THEN fail("KeyError", FALSE)
             ELSE IF 0 \in short \/ n < NKnots THEN fail("IndexError", FALSE)
             ELSE IF unknown # {} THEN fail("KeyError", FALSE)
             ELSE IF short # {} THEN fail("IndexError", FALSE)
             ELSE [raised |-> "none", leak |-> FALSE,
                   temp |-> [i \in 1..n |->
                                IF i = NKnots
                                THEN PtSplineInterp(RowOf(samples, n - 1), param_index, n - 1)
                                ELSE ZeroColumn]]
        ELSE IF unknown # {} THEN fail("KeyError", FALSE)
        ELSE IF short # {} THEN fail("IndexError", FALSE)
        ELSE [raised |-> "none", leak |-> FALSE,
              temp |-> [i \in 1..n |->
                           IF pt_profile \in {"molliere", "mod-molliere"}
                           THEN PtRetModel(pt_profile, RowOf(samples, i - 1), param_index)
                           ELSE ZeroColumn]]

AddIsochrones(args) ==
    /\ pc = "idle"
    /\ \E a \in args :
        LET r == AddIsochronesStore(store, a) IN
        /\ CanLeak(r)
        /\ store' = r.st
        /\ handles' = Leaked(r)
        /\ outcome' = [op |-> "add_isochrones", tag |-> a.tag, kind |-> a.model,
                       raised |-> r.raised, before |-> store]
    /\ UNCHANGED <<pc, loc>>

AddPhotometry(libraries) ==
    /\ pc = "idle"
    /\ \E phot_library \in libraries :
        /\ store' = AddPhotometryStore(store, phot_library)
        /\ outcome' = [op |-> "add_photometry", tag |-> phot_library, kind |-> phot_library,
                       raised |-> "none", before |-> store]
    /\ UNCHANGED <<handles, pc, loc>>

AddSpectra(libraries) ==
    /\ pc = "idle"
    /\ \E spec_library \in libraries :
        /\ store' = AddSpectraStore(store, spec_library)
        /\ outcome' = [op |-> "add_spectra", tag |-> spec_library, kind |-> spec_library,
                       raised |-> "none", before |-> store]
    /\ UNCHANGED <<handles, pc, loc>>

GetPtProfilesOf(tags) ==
    /\ pc = "idle"
    /\ \E tag \in tags :
        LET r == IF DOMAIN store = {} THEN [raised |-> "OSError", leak |-> FALSE, temp |-> <<>>]
                 ELSE GetPtProfiles(store, tag) IN
        /\ CanLeak(r)
        /\ handles' = Leaked(r)
        /\ outcome' = [op |-> "get_pt_profiles", tag |-> tag, raised |-> r.raised,
                       value |-> r.temp]
    /\ UNCHANGED <<store, pc, loc>>

\* the calls of the operations that dispatch on a name
IsochroneArgs ==
    {[filename |-> f, tag |-> "iso", model |-> m] :
        f \in {<<<<1, 2>>, <<2, 1>>>>, <<<<1, 1>>>>}, m \in {"marleau", "baraffe", "sonora"}}

SamplerArgs ==
    {[SamplesArgs(tag, x, NdArray(<<MaxRows>>, [k \in 1..MaxRows |-> 0]), <<"teff">>, <<>>, FALSE)
         EXCEPT !.sampler = sampler] :
        tag \in Tags, x \in {t \in Ramps(<<MaxRows, 1>>) : t.flat[1] = MaxVal},
        sampler \in {"emcee", "multinest", "ultranest", "dynesty"}}

ProfileArgs ==
    {[a EXCEPT !.radtrans.pt_profile = pt_profile] :
        a \in {b \in RetrievalArgsOf({<<>>}, {<<>>}, {FALSE},
                                     {t \in RetrievalTables(1) : t.flat[1] = MaxVal}, {0}) :
                  Len(b.parameters) = 1},
        pt_profile \in {"molliere", "free", "eddington"}}

AddRetrievalOf(args) ==
    /\ pc = "idle"
    /\ \E a \in args :
        LET r == AddRetrieval(store, a) IN
        /\ CanLeak(r)
        /\ store' = r.st
        /\ handles' = Leaked(r)
        /\ outcome' = [op |-> "add_retrieval", tag |-> a.tag, raised |-> r.raised,
                       replaced |-> Exists(store, FitPath(a.tag))]
    /\ UNCHANGED <<pc, loc>>

NextKinds ==
    \/ AddIsochrones(IsochroneArgs)
    \/ AddPhotometry({"vlm-plx", "mamajek"})
    \/ AddSpectra({"vega", "spex", "sdss"})
    \/ AddSamples(SamplerArgs)
    \/ AddRetrievalOf(ProfileArgs)
    \/ GetPtProfilesOf(Tags)

SpecKinds == Init /\ [][NextKinds]_vars

\* the nodes of the store before the call are in the store as they were
KeptSince(before) == \A p \in DOMAIN before : Exists(store, p) /\ store[p] = before[p]

\* C13: an operation called with a name of a kind that it does not support
\* raises an error: add_isochrones with a model other than baraffe and
\* marleau, add_photometry and add_spectra with a library that has no
\* reader, add_samples with a sampler other than emcee, multinest and
\* ultranest, get_pt_profiles with a pt_profile other than molliere,
\* mod-molliere, free and monotonic; none of them has deleted a node of the
\* store before, or returns an array of zeros
C13_UnsupportedKindFails ==
    LET fails == outcome.raised # "none"
        attrs == store[SamplesPath(outcome.tag)].attrs
    IN  /\ outcome.op = "add_isochrones"
           /\ StrPrefix(outcome.kind, 7) \notin {"baraffe", "marleau"}
               => fails /\ KeptSince(outcome.before)
        /\ outcome.op = "add_photometry"
           /\ StrPrefix(outcome.kind, 7) \notin {"vlm-plx", "leggett"}
               => fails /\ KeptSince(outcome.before)
        /\ outcome.op = "add_spectra"
           /\ StrPrefix(outcome.kind, 5) \notin {"vega", "irtf", "spex"}
           /\ StrPrefix(outcome.kind, 12) # "kesseli+2017"
           /\ StrPrefix(outcome.kind, 13) # "bonnefoy+2014"
           /\ StrPrefix(outcome.kind, 11) # "allers+2013"
               => fails /\ KeptSince(outcome.before)
        /\ outcome.op = "add_samples"
           /\ attrs["sampler"] \notin {"emcee", "multinest", "ultranest"}
               => fails
        /\ outcome.op = "get_pt_profiles"
           /\ Exists(store, SamplesPath(outcome.tag))
           /\ "pt_profile" \in DOMAIN attrs
           /\ attrs["pt_profile"] \notin {"molliere", "mod-molliere", "free", "monotonic"}
               => fails

(***************************************************************************)
(* Properties of the spectra of add_object                                 *)
(***************************************************************************)
\* the datasets below objects/, with their attributes
ObjectData(s) ==
    [p \in {q \in DOMAIN s : q[1] = "objects" /\ s[q].kind = "dataset"} |-> s[p]]

\* the file of a spectrum, or the file of its covariance matrix, is not
\* read: it is no text or FITS file, or holds no array of the shape
Malformed(item) ==
    LET spec == ReadSpectrum(item.file, <<>>) IN
    \/ spec.raised = "ValueError"
    \/ spec.raised = "none" /\ ReadCovariance(item.cov, spec.data).raised = "ValueError"

\* C14: a call of add_object with a spectrum file or a covariance file that
\* cannot be parsed fails and leaves the data of the store as they were
\* before the call: the distance and the photometry of the call are not
\* written and the spectra stored before are not deleted
C14_MalformedInputWritesNothing ==
    (/\ outcome.op = "add_object"
     /\ outcome.args.spectrum # <<>>
     /\ \E i \in 1..Len(outcome.args.spectrum[1]) : Malformed(outcome.args.spectrum[1][i]))
        => /\ outcome.raised # "none"
           /\ ObjectData(store) = ObjectData(outcome.before)

\* C15: a matrix with ones along its diagonal that is supplied as the
\* covariance matrix of a spectrum, in a FITS file, a FITS file of the
\* GRAVITY format or a text file, is stored with the squares of the flux
\* errors of the spectrum along its diagonal and together with its inverse;
\* a matrix with another diagonal is stored as it is
C15_CorrelationConverted ==
    outcome.op = "add_object" /\ outcome.args.spectrum # <<>> =>
        \A i \in 1..Len(outcome.args.spectrum[1]) :
            LET item == outcome.args.spectrum[1][i]
                base == <<"objects", outcome.tag, "spectrum", item.key>>
                spec == ReadSpectrum(item.file, <<>>)
                matrix == LoadCovariance(item.cov[1], spec.data)
                sigma == ColumnOf(spec.data, 2)
                stored == store[Append(base, "covariance")].data
            IN  (/\ item.cov # <<>>
                 /\ spec.raised = "none"
                 /\ matrix.raised = "none"
                 /\ matrix.data.shape = <<Len(sigma), Len(sigma)>>)
                    => /\ Exists(store, Append(base, "covariance"))
                       /\ IF \A k \in 1..Len(sigma) : Diag(matrix.data)[k] = 1
                          THEN /\ \A k \in 1..Len(sigma) : Diag(stored)[k] = sigma[k] * sigma[k]
                               /\ Exists(store, Append(base, "inv_covariance"))
                          ELSE stored = matrix.data

\* the paths of the datasets that a call of add_object supplies
Supplied(a) ==
    LET items(dict) == IF dict = <<>> THEN <<>> ELSE dict[1]
        base == <<"objects", a.object_name>>
    IN  (IF a.distance = <<>> THEN {} ELSE {Append(base, "distance")})
        \cup {ObjectPath(a.object_name, items(a.app_mag)[i].filter) :
                i \in 1..Len(items(a.app_mag))}
        \cup {ObjectPath(a.object_name, items(a.flux_density)[i].filter) :
                i \in 1..Len(items(a.flux_density))}
        \cup UNION {{base \o <<"spectrum", items(a.spectrum)[i].key, "spectrum">>}
                    \cup (IF items(a.spectrum)[i].cov = <<>> THEN {}
                          ELSE {base \o <<"spectrum", items(a.spectrum)[i].key, "covariance">>,
                                base \o <<"spectrum", items(a.spectrum)[i].key,
                                          "inv_covariance">>}) :
                    i \in 1..Len(items(a.spectrum))}

\* C16: after a call of add_object that has returned, the datasets below
\* objects/{name} are the distance, the photometry and the spectra of that
\* call and no others: what was stored before and is not supplied again
\* has been deleted
C16_RecordIsTheCallsData ==
    outcome.op = "add_object" /\ outcome.raised = "none" =>
        {p \in DOMAIN ObjectData(store) : p[2] = outcome.tag} = Supplied(outcome.args)

\* the entry of an item of app_mag has the shape and the n_phot of its
\* measurements: a vector of 4 and 1 for a tuple, 4 rows of k and k for a
\* list of k tuples
EntryShaped(object_name, item) ==
    LET path == ObjectPath(object_name, item.filter)
        k == Len(item.pairs)
    IN  /\ Exists(store, path)
        /\ store[path].data.shape = IF item.kind = "tuple" THEN <<4>> ELSE <<4, k>>
        /\ "n_phot" \in DOMAIN store[path].attrs
        /\ store[path].attrs["n_phot"] = IF item.kind = "tuple" THEN 1 ELSE k

\* the entry of an item of app_mag holds the magnitudes and the errors as
\* they were supplied, and the fluxes of the magnitudes for the zero point
\* of the filter
EntryConverted(object_name, item) ==
    LET k == Len(item.pairs) IN
    /\ EntryRows(object_name, item, 1, 1) = [j \in 1..k |-> Num(item.pairs[j][1])]
    /\ EntryRows(object_name, item, 2, 2) = [j \in 1..k |-> Num(item.pairs[j][2])]
    /\ EntryRows(object_name, item, 3, 3)
           = [j \in 1..k |-> [zero_point |-> item.filter, mag |-> item.pairs[j][1],
                              dered |-> <<>>]]

\* the entry of every flux density is a vector of 4 with n_phot = 1
DensitiesShaped(a) ==
    a.flux_density # <<>> =>
        \A i \in 1..Len(a.flux_density[1]) :
            LET path == ObjectPath(a.object_name, a.flux_density[1][i].filter) IN
            /\ Exists(store, path)
            /\ store[path].data.shape = <<4>>
            /\ store[path].attrs["n_phot"] = 1

\* the call gives a flux density for the filter
HasDensity(a, filter) ==
    a.flux_density # <<>> /\ \E i \in 1..Len(a.flux_density[1]) : a.flux_density[1][i].filter = filter

\* C17 (as stated): every photometry entry written by add_object is an
\* array of the 4 rows magnitude, error, flux, flux error with n_phot the
\* number of its measurements, 1 with a vector of 4 for a tuple and k with
\* rows of k for a list of k tuples; without dereddening the magnitudes and
\* errors are the supplied ones and the flux is the zero-point conversion
C17_PhotometryEntry ==
    outcome.op = "add_object" /\ outcome.raised = "none" =>
        /\ DensitiesShaped(outcome.args)
        /\ outcome.args.app_mag # <<>> =>
               \A i \in 1..Len(outcome.args.app_mag[1]) :
                   LET item == outcome.args.app_mag[1][i] IN
                   /\ EntryShaped(outcome.tag, item)
                   /\ ExtinctionOf(outcome.args.deredden, item.filter) = <<>>
                          => EntryConverted(outcome.tag, item)

\* C17 (amended): the same for every filter of app_mag that has no flux
\* density in the same call, with the magnitudes, errors and fluxes of the
\* entry as stated when no dereddening applies and the filter is resolved
C17_ResolvedPhotometryEntry ==
    outcome.op = "add_object" /\ outcome.raised = "none" =>
        /\ DensitiesShaped(outcome.args)
        /\ outcome.args.app_mag # <<>> =>
               \A i \in 1..Len(outcome.args.app_mag[1]) :
                   LET item == outcome.args.app_mag[1][i] IN
                   ~HasDensity(outcome.args, item.filter) =>
                       /\ EntryShaped(outcome.tag, item)
                       /\ (/\ ExtinctionOf(outcome.args.deredden, item.filter) = <<>>
                           /\ HasFilter(store, item.filter))
                              => EntryConverted(outcome.tag, item)

\* a list of more than one magnitude of a resolved filter has been stored
C17_ListStored ==
    /\ outcome.op = "add_object" /\ outcome.raised = "none"
    /\ outcome.args.app_mag # <<>>
    /\ \E i \in 1..Len(outcome.args.app_mag[1]) :
           LET item == outcome.args.app_mag[1][i] IN
           /\ item.kind = "list" /\ Len(item.pairs) > 1
           /\ outcome.args.deredden = NoDeredden
           /\ ~HasDensity(outcome.args, item.filter)
           /\ HasFilter(store, item.filter)
           /\ store[ObjectPath(outcome.tag, item.filter)].attrs["n_phot"] = Len(item.pairs)

(***************************************************************************)
(* isochrones.py: the functions that write isochrones/{tag}/evolution      *)
(***************************************************************************)
\* A source table is the sequence of its rows <<age, mass>>, the age in
\* the unit of the source; the other columns of a row are left out.

\* isochrones.add_manual(database, tag, file_name): ages in Gyr, the rows
\* sorted; the datasets filters and magnitudes are written before
AddManual(s, tag, file) ==
    LET rows == SortRows([i \in 1..Len(file) |-> <<1000 * file[i][1], file[i][2]>>], 1, <<>>)
        s1 == CreateDataset(s, <<"isochrones", tag, "filters">>, Dataset1D(<<>>))
        s2 == CreateDataset(s1, <<"isochrones", tag, "magnitudes">>, Dataset1D(<<>>))
    IN  IF ~CanCreate(s, <<"isochrones", tag, "filters">>) THEN [st |-> s, raised |-> "ValueError"]
        ELSE [st |-> PutEvolution(s2, tag, rows, "manual"), raised |-> "none"]

RECURSIVE AddTables(_, _, _, _, _)
\* the loop over iso_files of add_sonora and of add_saumon: the rows of
\* every file, ages in Gyr, are appended as they are read and written
\* under the tag of the file
AddTables(s, tags, files, model, i) ==
    IF i > Len(tags) THEN [st |-> s, raised |-> "none"]
    ELSE IF ~CanCreate(s, <<"isochrones", tags[i], "evolution">>)
    THEN [st |-> s, raised |-> "ValueError"]
    ELSE AddTables(PutEvolution(s, tags[i],
                                [k \in 1..Len(files[i]) |->
                                    <<1000 * files[i][k][1], files[i][k][2]>>],
                                model),
                   tags, files, model, i + 1)

\* isochrones.add_sonora(database, input_path)
AddSonora(s, files) ==
    AddTables(s, <<"sonora+0.0", "sonora+0.5", "sonora-0.5">>, files, "sonora", 1)

\* isochrones.add_saumon(database, input_path)
AddSaumon(s, files) ==
    AddTables(s, <<"saumon2008-nc_solar", "saumon2008-nc_-0.3", "saumon2008-nc_+0.3",
                   "saumon2008-f2_solar", "saumon2008-hybrid_solar">>, files, "saumon2008", 1)

RECURSIVE Pow10(_)
Pow10(n) == IF n = 0 THEN 1 ELSE 10 * Pow10(n - 1)

\* isochrones.add_baraffe2015(database, input_path): the ages of the file
\* are log t(yr), from 6 on here, and age = 1e-6 * 10.**log_age
AddBaraffe2015(s, file) ==
    IF ~CanCreate(s, <<"isochrones", "baraffe2015", "evolution">>)
    THEN [st |-> s, raised |-> "ValueError"]
    ELSE [st |-> PutEvolution(s, "baraffe2015",
                              [k \in 1..Len(file) |-> <<Pow10(file[k][1] - 6), file[k][2]>>],
                              "baraffe2015"),
          raised |-> "none"]

\* the source tables: 1..MaxIso rows in every order of their ages, the
\* mass of a row is its number
IsoTables ==
    UNION {[1..n -> 1..MaxAge] : n \in 1..MaxIso}

TableOf(ages, from) == [i \in 1..Len(ages) |-> <<from + ages[i], i>>]

\* the calls: a function and its source table
EvolutionCalls ==
    {[op |-> op, ages |-> ages] :
        op \in {"add_manual", "add_marleau", "add_sonora", "add_saumon", "add_baraffe2015"},
        ages \in IsoTables}

\* the database is open and one of the functions is about to be called
InitIso ==
    /\ store = <<>>
    /\ handles = 1
    /\ outcome = [op |-> "none", raised |-> "none"]
    /\ pc = "call"
    /\ loc \in EvolutionCalls

\* the call of the function on the open database
AddEvolution ==
    /\ pc = "call"
    /\ LET file == TableOf(loc.ages, 0)
           r == IF loc.op = "add_manual" THEN AddManual(store, "iso", file)
                ELSE IF loc.op = "add_marleau"
                THEN [st |-> AddMarleau(store, "iso",
                                        [i \in 1..Len(file) |-> <<file[i][2], file[i][1]>>]),
                      raised |-> "none"]
                ELSE IF loc.op = "add_sonora" THEN AddSonora(store, [i \in 1..3 |-> file])
                ELSE IF loc.op = "add_saumon" THEN AddSaumon(store, [i \in 1..5 |-> file])
                ELSE AddBaraffe2015(store, TableOf(loc.ages, 5))
       IN  /\ store' = r.st
           /\ outcome' = [op |-> loc.op, tag |-> "iso", raised |-> r.raised]
    /\ pc' = "idle"
    /\ loc' = NoLoc
    /\ UNCHANGED handles

NextIso == AddEvolution

SpecIso == InitIso /\ [][NextIso]_vars

\* C18: the rows of every array isochrones/{tag}/evolution in the store,
\* written by add_manual, add_marleau, add_sonora, add_saumon or
\* add_baraffe2015 from a source table with its rows in any order, are in
\* ascending order of the age in column 0
C18_EvolutionSortedByAge ==
    \A p \in DOMAIN store :
        p[1] = "isochrones" /\ p[Len(p)] = "evolution" =>
            \A i \in 1..(Len(store[p].data.flat) - 1) :
                store[p].data.flat[i][1] <= store[p].data.flat[i + 1][1]

\* C19: while an operation runs there is at most one open handle that it
\* has opened: add_object does not keep its handle open while a nested
\* add_filter or add_spectra opens the file, writes and closes it, and it
\* looks nothing up through a handle that it opened before such a write
C19_OneWriterAtATime ==
    pc # "idle" =>
        /\ handles - loc.base <= 1
        /\ pc = "object" => store = loc.before

(***************************************************************************)
(* The parameter dictionaries of get_mcmc_spectra and get_mcmc_photometry  *)
(***************************************************************************)
\* parameter names that a sample set can hold in its last column: a model
\* parameter, a flux scaling of a spectrum, and the length and the
\* amplitude of a correlated noise model
AxisNames == {"radius", "scaling_a", "corr_len_a", "corr_amp_a"}

\* the model parameters of a sample set whose last parameter is name
AxisParams(name) == [i \in 1..MaxParams |-> IF i = MaxParams THEN name ELSE ParamNames[i]]

\* add_samples calls with tables of MaxRows samples; the spectrum label
\* scaling_a is passed as spec_labels
AxisSamplesArgs ==
    {[SamplesArgs(tag, x, l, AxisParams(name), distance, FALSE)
         EXCEPT !.spec_labels = <<"scaling_a">>] :
        tag \in Tags, x \in Ramps(<<MaxRows, MaxParams>>),
        l \in Peaks(<<MaxRows>>, MaxLnProb), name \in AxisNames,
        distance \in {<<>>, <<10>>}}

\* add_retrieval calls whose params.json ends with an error inflation
AxisRetrievalArgs ==
    {[a EXCEPT !.parameters = AxisParams("error_a")] :
        a \in RetrievalArgsOf({<<>>}, {<<>>}, {FALSE}, RetrievalTables(MaxParams), {0})}

NextMcmc ==
    \/ AddSamples(AxisSamplesArgs)
    \/ AddRetrievalOf(AxisRetrievalArgs)
    \/ GetMcmcSpectra
    \/ GetMcmcPhotometry

SpecMcmc == Init /\ [][NextMcmc]_vars

\* the parameters that the attributes of a sample set tag as a scaling
\* axis or an error axis, and the parameters named as a correlation axis
TaggedAxes(attrs) ==
    {attrs[k] : k \in {Key("scaling", i) : i \in 0..MaxParams} \cap DOMAIN attrs}
    \cup {attrs[k] : k \in {Key("error", i) : i \in 0..MaxParams} \cap DOMAIN attrs}
    \cup {attrs[k] : k \in {q \in {Key("parameter", i) : i \in 0..MaxParams} \cap DOMAIN attrs :
                               StrPrefix(attrs[q], 9) \in {"corr_len_", "corr_amp_"}}}

\* a dictionary of sample number i holds none of the tagged parameters and
\* every other parameter with the value of the sample
WithoutAxes(dict, attrs, row) ==
    /\ DOMAIN dict \cap TaggedAxes(attrs) = {}
    /\ \A j \in 1..Len(row) :
          attrs[Key("parameter", j - 1)] \notin TaggedAxes(attrs) =>
              /\ attrs[Key("parameter", j - 1)] \in DOMAIN dict
              /\ dict[attrs[Key("parameter", j - 1)]] = row[j]

\* C20: the parameter dictionaries that get_mcmc_spectra and
\* get_mcmc_photometry hand to the forward model hold no parameter that
\* the sample set tags as a scaling axis, an error axis or a correlation
\* axis, and hold every other stored parameter with the value of the sample
C20_AxesNotPassedToModel ==
    (outcome.op \in {"get_mcmc_spectra", "get_mcmc_photometry"} /\ outcome.raised = "none") =>
        \A i \in 1..Len(outcome.value) :
            WithoutAxes(outcome.value[i], store[SamplesPath(outcome.tag)].attrs,
                        RowOf(outcome.samples, i - 1))

\* the same statement of get_mcmc_spectra alone
SpectraWithoutAxes ==
    (outcome.op = "get_mcmc_spectra" /\ outcome.raised = "none") =>
        \A i \in 1..Len(outcome.value) :
            WithoutAxes(outcome.value[i], store[SamplesPath(outcome.tag)].attrs,
                        RowOf(outcome.samples, i - 1))

\* get_mcmc_spectra has returned the dictionaries of a sample set with a
\* tagged parameter
SpectraOfTagged ==
    /\ outcome.op = "get_mcmc_spectra"
    /\ outcome.raised = "none"
    /\ Len(outcome.value) > 0
    /\ TaggedAxes(store[SamplesPath(outcome.tag)].attrs) # {}

(***************************************************************************)
(* get_pt_profiles on the sample sets of add_retrieval                     *)
(***************************************************************************)
\* params.json of a retrieval: the knot temperatures t0..t14 (t1, t2, t3
\* are also the temperatures of the molliere profile), the other parameters
\* of the molliere profile and, with smooth, pt_smooth
KnotParams(smooth) ==
    [j \in 1..NKnots |-> Key("t", j - 1)]
    \o <<"log_delta", "alpha", "tint", "metallicity", "c_o_ratio">>
    \o (IF smooth THEN <<"pt_smooth">> ELSE <<>>)

\* post_equal_weights.dat with n samples of w parameters and the column of
\* the log-likelihoods; neighbouring rows and neighbouring columns differ
KnotTable(n, w, o) ==
    NdArray(<<n, w + 1>>,
            [k \in 1..(n * (w + 1)) |->
                (((k - 1) \div (w + 1)) + ((k - 1) % (w + 1)) + o) % (MaxVal + 1)])

PtProfiles == {"molliere", "mod-molliere", "free", "monotonic"}

\* the add_retrieval calls of a retrieval with every documented profile
KnotArgs ==
    {[tag |-> tag, parameters |-> KnotParams(smooth),
      radtrans |-> [Radtrans(<<>>, <<>>) EXCEPT !.pt_profile = pt_profile],
      samples |-> KnotTable(n, Len(KnotParams(smooth)), o),
      inc_teff |-> FALSE, fail |-> 0] :
        tag \in Tags, smooth \in BOOLEAN, pt_profile \in PtProfiles,
        n \in {1, 2, NKnots}, o \in 0..MaxVal}

NextProfiles ==
    \/ AddRetrievalOf(KnotArgs)
    \/ GetPtProfilesOf(Tags)

SpecProfiles == Init /\ [][NextProfiles]_vars

\* the value of the parameter name in sample number i (from 0) of a stored
\* sample set
ValueOf(dset, name, i) ==
    LET j == CHOOSE k \in 0..(NParam(dset.attrs) - 1) : dset.attrs[Key("parameter", k)] = name
    IN  RowOf(dset.data, i)[j + 1]

\* the temperature profile of sample number i of a stored sample set
ProfileOf(dset, i) ==
    LET v(name) == ValueOf(dset, name, i)
        has(name) == \E k \in 0..(NParam(dset.attrs) - 1) :
                         dset.attrs[Key("parameter", k)] = name
        rest == <<v("log_delta"), v("alpha"), v("tint"), v("metallicity"), v("c_o_ratio")>>
    IN  IF dset.attrs["pt_profile"] = "molliere"
        THEN [fn |-> "pt_ret_model", args |-> <<v("t1"), v("t2"), v("t3")>> \o rest]
        ELSE IF dset.attrs["pt_profile"] = "mod-molliere"
        THEN [fn |-> "pt_ret_model", args |-> rest]
        ELSE [fn |-> "pt_spline_interp",
              args |-> [j \in 1..NKnots |-> v(Key("t", j - 1))]
                       \o <<IF has("pt_smooth") THEN v("pt_smooth") ELSE 0>>]

\* C21: get_pt_profiles on a retrieval sample set returns a temperature
\* array with one column per sample, and column i is the profile of the
\* parameters of sample i (for the free and monotonic kinds of its knot
\* temperatures t0..t14): no column is left zero, none is computed from
\* another sample
C21_ProfilePerSample ==
    (/\ outcome.op = "get_pt_profiles"
     /\ Exists(store, SamplesPath(outcome.tag))) =>
        LET dset == store[SamplesPath(outcome.tag)] IN
        /\ outcome.raised = "none"
        /\ Len(outcome.value) = dset.data.shape[1]
        /\ \A i \in 1..Len(outcome.value) : outcome.value[i] = ProfileOf(dset, i - 1)

\* the same statement of the molliere and mod-molliere kinds alone
MolliereProfilePerSample ==
    (/\ outcome.op = "get_pt_profiles"
     /\ Exists(store, SamplesPath(outcome.tag))
     /\ store[SamplesPath(outcome.tag)].attrs["pt_profile"] \in {"molliere", "mod-molliere"}) =>
        LET dset == store[SamplesPath(outcome.tag)] IN
        /\ outcome.raised = "none"
        /\ Len(outcome.value) = dset.data.shape[1]
        /\ \A i \in 1..Len(outcome.value) : outcome.value[i] = ProfileOf(dset, i - 1)

\* get_pt_profiles has returned the profiles of a free retrieval
FreeProfilesReturned ==
    /\ outcome.op = "get_pt_profiles"
    /\ outcome.raised = "none"
    /\ Exists(store, SamplesPath(outcome.tag))
    /\ store[SamplesPath(outcome.tag)].attrs["pt_profile"] = "free"

(***************************************************************************)
(* The derived columns of add_retrieval                                    *)
(***************************************************************************)
\* the number of the cloud species of radtrans.json, up to number k, whose
\* optical depth is a parameter of params.json
CloudsWithTau(a, k) ==
    Cardinality({i \in 1..k : InList(CloudName(a.radtrans.cloud_species[i]) \o "_tau",
                                     a.parameters)})

\* the names of the derived columns of a call, in the order of the claim:
\* the cloud fractions, the quench pressure, the effective temperature
DerivedNames(a) ==
    LET species == a.radtrans.cloud_species
        n == CloudsWithTau(a, Len(species))
        cloud(k) == CHOOSE i \in 1..Len(species) :
                        /\ InList(CloudName(species[i]) \o "_tau", a.parameters)
                        /\ CloudsWithTau(a, i) = k
    IN  [k \in 1..(n + (IF a.radtrans.quenching = <<"diffusion">> THEN 1 ELSE 0)
                     + (IF a.inc_teff THEN 1 ELSE 0)) |->
            IF k <= n THEN CloudName(species[cloud(k)]) \o "_fraction"
            ELSE IF k = n + 1 /\ a.radtrans.quenching = <<"diffusion">> THEN "log_p_quench"
            ELSE "teff"]

\* the values of the parameters of params.json in sample number j (from 0)
\* of post_equal_weights.dat
ManifestRow(a, j) == SubSeq(RowOf(a.samples, j), 1, Len(a.parameters))

\* the sample set of call a after k passes: the columns of the manifest
\* and k derived columns, n_param of them, named in their order
AfterPasses(a, k, node) ==
    LET m == Len(a.parameters)
        names == DerivedNames(a)
    IN  /\ node.data.shape = <<a.samples.shape[1], m + k>>
        /\ node.attrs["n_param"] = m + k
        /\ \A i \in 1..m : node.attrs[Key("parameter", i - 1)] = a.parameters[i]
        /\ \A i \in 1..k : node.attrs[Key("parameter", m + i - 1)] = names[i]
        /\ \A j \in 0..(a.samples.shape[1] - 1) :
              SubSeq(RowOf(node.data, j), 1, m) = ManifestRow(a, j)

DeleteData(s, dataset) ==
    IF Exists(s, dataset) THEN [st |-> Del(s, dataset), warned |-> FALSE]
    ELSE [st |-> s, warned |-> TRUE]

\* the calls of the ingestion operations under a first and a second name
\* or tag; "MKO" is a user-defined filter name, given with a file
FrameCalls(filters, calibrations, fits, grids, libraries, isochrones) ==
    {[op |-> "add_filter", args |-> a, target |-> FilterPath(a.filter_name)] :
        a \in {b \in FilterArgsOf(filters, {<<<<1, 1>>, <<2, 1>>>>}, {<<<<1, 1>>, <<3, 1>>>>}) :
                  b.filter_name = "MKO" => b.filename # <<>>}}
    \cup {[op |-> "add_calibration", args |-> [a EXCEPT !.tag = tag],
           target |-> CalibrationPath(tag)] : a \in CalibrationArgs, tag \in calibrations}
    \cup {[op |-> "add_samples", args |-> [a EXCEPT !.tag = tag], target |-> FitPath(tag)] :
            a \in IngestSamplesArgs, tag \in fits}
    \cup {[op |-> "add_retrieval", args |-> [a EXCEPT !.tag = tag], target |-> FitPath(tag)] :
            a \in IngestRetrievalArgs, tag \in fits}
    \cup {[op |-> "add_comparison", args |-> [a EXCEPT !.tag = tag],
           target |-> <<"results", "comparison", tag>>] : a \in ComparisonArgs, tag \in grids}
    \cup {[op |-> "add_empirical", args |-> [a EXCEPT !.tag = tag],
           target |-> <<"results", "empirical", tag>>] : a \in EmpiricalArgs, tag \in libraries}
    \cup {[op |-> "add_isochrones", args |-> [a EXCEPT !.tag = tag],
           target |-> <<"isochrones", tag>>] : a \in IsochroneArgs, tag \in isochrones}

FirstCalls == FrameCalls({"MKO/J"}, {"vega"}, {"fit1"}, {"grid"}, {"irtf"}, {"iso"})

SecondCalls == FrameCalls({"MKO/H", "MKO"}, {"sirius"}, {"fit2"}, {"grid2"}, {"spex"}, {"iso2"})

\* delete_data with the path of an entity, of a group of entities and of
\* nothing in the store
DeleteCalls ==
    {[op |-> "delete_data", args |-> [dataset |-> c.target], target |-> c.target] :
        c \in FirstCalls}
    \cup {[op |-> "delete_data", args |-> [dataset |-> p], target |-> p] :
            p \in {<<"results", "fit">>, <<"filters", "MKO", "K">>, <<"dust">>}}

\* the store, the exception and the warning that a call leaves
CallStore(s, c) ==
    LET done(st) == [st |-> st, raised |-> "none", leak |-> FALSE, warned |-> FALSE]
        of(r) == [st |-> r.st, raised |-> r.raised, leak |-> r.leak, warned |-> FALSE]
    IN  CASE c.op = "add_filter" -> of(AddFilterStore(s, c.args))
          [] c.op = "add_calibration" -> of(AddCalibrationStore(s, c.args))
          [] c.op = "add_samples" -> done(AddSamplesStore(s, c.args))
          [] c.op = "add_retrieval" -> of(AddRetrieval(s, c.args))
          [] c.op = "add_comparison" ->
                [done(AddComparisonStore(s, c.args).st)
                    EXCEPT !.raised = AddComparisonStore(s, c.args).raised]
          [] c.op = "add_empirical" -> done(AddEmpiricalStore(s, c.args))
          [] c.op = "add_isochrones" -> of(AddIsochronesStore(s, c.args))
          [] c.op = "delete_data" ->
                [done(DeleteData(s, c.args.dataset).st)
                    EXCEPT !.warned = DeleteData(s, c.args.dataset).warned]

\* the calls that fill the database: one call of every operation that
\* stores its entity, under each name of the calls given
Ingested(calls) ==
    {c \in calls :
        /\ c.op # "add_filter" \/ c.args.filename # <<>>
        /\ c.op = "add_filter" => c.args.filter_name # "MKO"
        /\ c.op # "add_retrieval" \/ c.args.fail = 0
        /\ c.op # "add_isochrones" \/ c.args.model = "marleau"}

\* a new database, the calls that fill it with entities under the first
\* names, under the second names, under both or none, and the call that
\* is made on the database they leave
InitFrame ==
    /\ store = <<>>
    /\ handles = 0
    /\ outcome = [op |-> "none", raised |-> "none"]
    /\ pc = "fill"
    /\ loc \in {[op |-> "fill", todo |-> todo, call |-> c] :
                   todo \in {{}, Ingested(FirstCalls), Ingested(SecondCalls),
                             Ingested(FirstCalls \cup SecondCalls)},
                   c \in FirstCalls \cup SecondCalls \cup DeleteCalls}

\* one of the calls that fill the database
FrameFill ==
    /\ pc = "fill"
    /\ loc.todo # {}
    /\ LET c == CHOOSE x \in loc.todo : TRUE IN
       /\ store' = CallStore(store, c).st
       /\ loc' = [loc EXCEPT !.todo = loc.todo \ {c}]
    /\ UNCHANGED <<handles, outcome, pc>>

FrameCall ==
    /\ pc = "fill"
    /\ loc.todo = {}
    /\ LET r == CallStore(store, loc.call) IN
       /\ store' = r.st
       /\ handles' = IF r.leak THEN handles + 1 ELSE handles
       /\ outcome' = [op |-> loc.call.op, target |-> loc.call.target, raised |-> r.raised,
                      warned |-> r.warned, before |-> store]
    /\ pc' = "idle"
    /\ loc' = NoLoc

NextFrame ==
    \/ FrameFill
    \/ FrameCall

SpecFrame == InitFrame /\ [][NextFrame]_vars

\* path q is path p or lies below it
Below(q, p) == Len(p) <= Len(q) /\ SubSeq(q, 1, Len(p)) = p

\* the entities of the store: the filters, the calibration spectra, the
\* sample sets, the comparison and empirical results, the isochrones
EntityPaths(s) ==
    {p \in DOMAIN s :
        \/ p[1] = "filters" /\ s[p].kind = "dataset"
        \/ Len(p) = 3 /\ p[1] = "spectra" /\ p[2] = "calibration"
        \/ Len(p) = 3 /\ p[1] = "results"
        \/ Len(p) = 2 /\ p[1] = "isochrones"}

\* C23: an ingestion or a deletion changes only the entity that it
\* targets: every node stored under another name or tag or in another
\* group of entities is as it was before the call, the groups above the
\* target exist after an ingestion, and delete_data with a path that is
\* not in the store changes nothing and warns
C23_OnlyTheTargetChanges ==
    outcome.op \notin {"none"} =>
        /\ \A e \in EntityPaths(outcome.before) :
              (e # outcome.target /\ ~Below(outcome.target, e)
               /\ ~(outcome.op = "delete_data" /\ Below(e, outcome.target))) =>
                 \A q \in DOMAIN outcome.before :
                    Below(q, e) => Exists(store, q) /\ store[q] = outcome.before[q]
        /\ \A q \in DOMAIN outcome.before :
              q \in Ancestors(outcome.target) => Exists(store, q) /\ store[q] = outcome.before[q]
        /\ outcome.op # "delete_data" =>
              \A q \in Ancestors(outcome.target) : Exists(store, q)
        /\ (outcome.op = "delete_data" /\ ~Exists(outcome.before, outcome.target)) =>
              store = outcome.before /\ outcome.warned

\* the same statement of the calls other than add_filter with a
\* user-defined name that has no observatory part
NamedTargetOnlyChanges ==
    (outcome.op \notin {"none"} /\ outcome.target # <<"filters", "MKO">>) =>
        /\ \A q \in DOMAIN outcome.before :
              ~Below(q, outcome.target) => Exists(store, q) /\ store[q] = outcome.before[q]
        /\ \A q \in DOMAIN store \ DOMAIN outcome.before :
              Below(q, outcome.target) \/ q \in Ancestors(outcome.target)
        /\ outcome.op # "delete_data" =>
              \A q \in Ancestors(outcome.target) : Exists(store, q)
        /\ (outcome.op = "delete_data" /\ ~Exists(outcome.before, outcome.target)) =>
              store = outcome.before /\ outcome.warned

(***************************************************************************)
(* add_comparison and get_compare_sample                                   *)
(***************************************************************************)
\* get_compare_sample(tag): the dictionary of the best-fit parameters; the
\* "with" block closes the store when a key is missing
GetCompareSample(s, tag) ==
    LET gof == <<"results", "comparison", tag, "goodness_of_fit">>
        attrs == s[gof].attrs
        n_param == attrs["n_param"]
        n_scale_spec == attrs["n_scale_spec"]
        names == {attrs[Key("parameter", i)] : i \in 0..(n_param - 1)}
        scaled == {"scaling_" \o attrs[Key("scale_spec", i)] : i \in 0..(n_scale_spec - 1)}
        last(name) == CHOOSE i \in 0..(n_param - 1) :
                         /\ attrs[Key("parameter", i)] = name
                         /\ \A j \in (i + 1)..(n_param - 1) : attrs[Key("parameter", j)] # name
        fail == [raised |-> "KeyError", value |-> <<>>]
    IN  IF ~Exists(s, gof) THEN fail
        ELSE IF ~({"n_param", "n_scale_spec"} \subseteq DOMAIN attrs) THEN fail
        ELSE IF \E i \in 0..(n_param - 1) :
                   ~({Key("parameter", i), Key("best_param", i)} \subseteq DOMAIN attrs)
        THEN fail
        ELSE IF ~({"distance", "radius"} \subseteq DOMAIN attrs) THEN fail
        ELSE IF \E i \in 0..(n_scale_spec - 1) : Key("scale_spec", i) \notin DOMAIN attrs
        THEN fail
        ELSE IF ~(scaled \subseteq DOMAIN attrs) THEN fail
        ELSE [raised |-> "none",
              value |-> [k \in names \cup {"distance", "radius"} \cup scaled |->
                            IF k \in scaled \cup {"distance", "radius"} THEN attrs[k]
                            ELSE attrs[Key("best_param", last(k))]]]

GridNames == <<"teff", "logg", "feh", "c_o_ratio">>

\* a goodness-of-fit grid of a shape with its minimum at position k (all
\* values tied for k = 0), the flux scalings o + 1, o + 2, ... and the grid
\* points 10, 11, ... of the first axis, 20, 21, ... of the second, and so on
GridArgs(shapes) ==
    UNION {{[tag |-> "grid",
             goodness_of_fit |-> NdArray(sh, [i \in 1..Prod(sh) |-> IF i = k THEN 1 ELSE 2]),
             flux_scaling |-> NdArray(sh, [i \in 1..Prod(sh) |-> o + i]),
             model_param |-> SubSeq(GridNames, 1, Len(sh)),
             coord_points |-> [i \in 1..Len(sh) |-> [j \in 1..sh[i] |-> 10 * i + j - 1]],
             object_name |-> "beta Pic b", spec_name |-> <<"SPHERE">>,
             model |-> "drift-phoenix", scale_spec |-> <<>>, extra_scaling |-> <<>>,
             distance |-> 10] : k \in 0..Prod(sh), o \in 0..MaxVal} : sh \in shapes}

\* grids over one, two, three and four parameters
GridShapes ==
    {<<MaxRows>>, <<1, MaxRows>>, <<MaxRows, 2>>, <<2, MaxRows, 2>>, <<2, 1, MaxRows, 2>>}

AddGrid ==
    /\ pc = "idle"
    /\ \E a \in GridArgs(GridShapes) :
        /\ store' = AddComparisonStore(store, a).st
        /\ outcome' = [op |-> "add_comparison", tag |-> a.tag,
                       raised |-> AddComparisonStore(store, a).raised, args |-> a]
    /\ UNCHANGED <<handles, pc, loc>>

GetCompareSampleOf(tags) ==
    /\ pc = "idle"
    /\ \E tag \in tags :
        /\ outcome' = [op |-> "get_compare_sample", tag |-> tag,
                       raised |-> GetCompareSample(store, tag).raised,
                       value |-> GetCompareSample(store, tag).value]
    /\ UNCHANGED <<store, handles, pc, loc>>

NextCompare ==
    \/ AddGrid
    \/ GetCompareSampleOf({"grid"})

SpecCompare == Init /\ [][NextCompare]_vars

\* index is the index of the minimum of the grid of call a, one number
\* (from 0) per axis
IsBestIndex(a, index) ==
    LET shape == a.goodness_of_fit.shape
        flat == a.goodness_of_fit.flat
        pos(ix) == LET RECURSIVE at(_)
                       at(d) == IF d = 0 THEN 0 ELSE at(d - 1) * shape[d] + ix[d]
                   IN  at(Len(shape)) + 1
    IN  /\ Len(index) = Len(shape)
        /\ \A d \in 1..Len(shape) : index[d] \in 0..(shape[d] - 1)
        /\ \A i \in 1..Len(flat) : flat[pos(index)] <= flat[i]
        /\ \A i \in 1..(pos(index) - 1) : flat[pos(index)] < flat[i]

\* the attributes that add_comparison is to store for the grid of call a
BestStored(a, attrs, index) ==
    LET shape == a.goodness_of_fit.shape
        pos == LET RECURSIVE at(_)
                   at(d) == IF d = 0 THEN 0 ELSE at(d - 1) * shape[d] + index[d]
               IN  at(Len(shape)) + 1
    IN  /\ {"best_fit", "scaling"} \subseteq DOMAIN attrs
        /\ attrs["best_fit"] = a.goodness_of_fit.flat[pos]
        /\ \A i \in 1..Len(shape) :
              /\ Key("best_param", i - 1) \in DOMAIN attrs
              /\ attrs[Key("best_param", i - 1)] = a.coord_points[i][index[i] + 1]
        /\ attrs["scaling"] = NdArray(<<>>, <<a.flux_scaling.flat[pos]>>)

\* C24: add_comparison with a grid over any number of parameters stores
\* the minimum of the grid as best_fit, the grid point of the minimum on
\* every axis as best_param{i} and the flux scaling at the index of the
\* minimum, and get_compare_sample returns these best_param values under
\* the names of the parameters
C24_BestFitOfAnyGrid ==
    LET gof == <<"results", "comparison", outcome.tag, "goodness_of_fit">> IN
    /\ outcome.op = "add_comparison" =>
          /\ outcome.raised = "none"
          /\ \E index \in [1..Len(outcome.args.goodness_of_fit.shape) -> 0..MaxRows] :
                /\ IsBestIndex(outcome.args, index)
                /\ BestStored(outcome.args, store[gof].attrs, index)
    /\ (outcome.op = "get_compare_sample" /\ Exists(store, gof)) =>
          /\ outcome.raised = "none"
          /\ \A i \in 0..(store[gof].attrs["n_param"] - 1) :
                outcome.value[store[gof].attrs[Key("parameter", i)]]
                    = store[gof].attrs[Key("best_param", i)]

\* the same statement of the grids over three parameters alone
ThreeAxisBestFit ==
    LET gof == <<"results", "comparison", outcome.tag, "goodness_of_fit">> IN
    /\ (outcome.op = "add_comparison" /\ Len(outcome.args.goodness_of_fit.shape) = 3) =>
          /\ outcome.raised = "none"
          /\ \E index \in [1..3 -> 0..MaxRows] :
                /\ IsBestIndex(outcome.args, index)
                /\ BestStored(outcome.args, store[gof].attrs, index)
    /\ (outcome.op = "get_compare_sample" /\ Exists(store, gof)
        /\ store[gof].attrs["n_param"] = 3) =>
          /\ outcome.raised = "none"
          /\ \A i \in 0..2 :
                outcome.value[store[gof].attrs[Key("parameter", i)]]
                    = store[gof].attrs[Key("best_param", i)]

\* ---------------------------------------------------------------------
\* The shape of a covariance matrix in a text file
\* ---------------------------------------------------------------------

\* the test of the FITS route: a square matrix of two dimensions with as
\* many rows as the spectrum has wavelength points
SquareOfSpectrum(matrix, spec) ==
    /\ Ndim(matrix) = 2
    /\ matrix.shape[1] = matrix.shape[2]
    /\ matrix.shape[1] = spec.shape[1]

\* the spectra of the completed call that were read and came with a
\* covariance matrix in a text file
AsciiCovariances ==
    IF outcome.op = "add_object" /\ outcome.args.spectrum # <<>>
    THEN {i \in 1..Len(outcome.args.spectrum[1]) :
             LET item == outcome.args.spectrum[1][i] IN
             /\ item.cov # <<>>
             /\ item.cov[1].format = "ascii"
             /\ ReadSpectrum(item.file, <<>>).raised = "none"}
    ELSE {}

\* C25: a covariance matrix in a text file is accepted by add_object when
\* it is a square matrix of two dimensions with as many rows as the
\* spectrum has wavelength points, whatever that number is, and is rejected
\* with a ValueError when it has another shape
C25_AsciiCovarianceShape ==
    \A i \in AsciiCovariances :
        LET item == outcome.args.spectrum[1][i]
            spec == ReadSpectrum(item.file, <<>>).data
        IN  SquareOfSpectrum(item.cov[1].data, spec) <=> outcome.raised # "ValueError"

\* the two tests agree on a spectrum of three wavelength points and a
\* square matrix
ThreePointCovarianceShape ==
    \A i \in AsciiCovariances :
        LET item == outcome.args.spectrum[1][i]
            spec == ReadSpectrum(item.file, <<>>).data
            matrix == item.cov[1].data
        IN  spec.shape[1] = 3 /\ Ndim(matrix) = 2 /\ matrix.shape[1] = matrix.shape[2]
                => (SquareOfSpectrum(matrix, spec) <=> outcome.raised # "ValueError")

\* ---------------------------------------------------------------------
\* The units of a calibration spectrum
\* ---------------------------------------------------------------------

\* the units the docstring of add_calibration names
WavelengthUnits == {"um", "angstrom"}

FluxUnits == {"w m-2 um-1", "w m-2"}

\* calls of add_calibration with a table of three or of two columns, with
\* the default units, with every pair of documented units, and with a
\* unit that is not supported
UnitArgs ==
    {[tag |-> "vega", data |-> d, units |-> u, scaling |-> <<>>] :
        d \in {NdArray(<<2, 3>>, <<1, 2, 1, 2, 4, 1>>),
               NdArray(<<2, 3>>, <<2, MaxVal + 1, 0, 4, 2, 1>>),
               NdArray(<<1, 2>>, <<1, MaxVal>>)},
        u \in {<<>>} \cup {<<[wavelength |-> w, flux |-> f]>> :
                              w \in WavelengthUnits \cup {"nm"},
                              f \in FluxUnits \cup {"jy"}}}

AddCalibrationOf(args) ==
    /\ pc = "idle"
    /\ \E a \in args :
        LET r == AddCalibrationStore(store, a) IN
        /\ CanLeak(r)
        /\ store' = r.st
        /\ handles' = Leaked(r)
        /\ outcome' = [op |-> "add_calibration", tag |-> a.tag, raised |-> r.raised,
                       args |-> a, before |-> store]
    /\ UNCHANGED <<pc, loc>>

NextCalibration == AddCalibrationOf(UnitArgs)

SpecCalibration == Init /\ [][NextCalibration]_vars

\* the call was made with the default units or with a pair of units that
\* the docstring names
DocumentedUnits(a) ==
    \/ a.units = <<>>
    \/ a.units[1].wavelength \in WavelengthUnits /\ a.units[1].flux \in FluxUnits

\* C26: add_calibration with any pair of documented units stores an array
\* of wavelength, flux and error at spectra/calibration/{tag}, and no call
\* ends with the calibration spectrum that was stored before deleted and
\* no new one written
C26_DocumentedUnitsStored ==
    outcome.op = "add_calibration" =>
        LET a == outcome.args
            path == CalibrationPath(a.tag)
        IN  /\ DocumentedUnits(a) =>
                /\ outcome.raised = "none"
                /\ Exists(store, path)
                /\ store[path].data.shape = <<3, a.data.shape[1]>>
            /\ ~(Exists(outcome.before, path) /\ ~Exists(store, path))

\* with the default units, with a wavelength in um, and with a flux in
\* W m-2 um-1 and a documented unit of wavelength, the array is stored
ConvertibleUnitsStored ==
    outcome.op = "add_calibration" =>
        LET a == outcome.args
            path == CalibrationPath(a.tag)
        IN  (/\ DocumentedUnits(a)
             /\ a.units # <<>> => (a.units[1].wavelength = "um" \/ a.units[1].flux = "w m-2 um-1"))
                => /\ outcome.raised = "none"
                   /\ Exists(store, path)
                   /\ store[path].data.shape = <<3, a.data.shape[1]>>

\* ---------------------------------------------------------------------
\* The scaling and the error parameters of a retrieval
\* ---------------------------------------------------------------------

\* add_retrieval calls whose params.json ends with a model parameter, a
\* flux scaling, an error inflation or a correlation length
ScalingRetrievalArgs ==
    {[a EXCEPT !.parameters = AxisParams(name)] :
        a \in RetrievalArgsOf({<<>>}, {<<>>}, {FALSE}, RetrievalTables(MaxParams), {0}),
        name \in {"radius", "scaling_a", "scaling_b", "error_a", "error_b", "corr_len_a"}}

NextScaling ==
    \/ AddRetrievalOf(ScalingRetrievalArgs)
    \/ GetMcmcSpectra

SpecScaling == Init /\ [][NextScaling]_vars

\* the stored parameters of a sample set whose name starts with prefix
NamedWith(attrs, prefix) ==
    {attrs[Key("parameter", i)] : i \in {j \in 0..(attrs["n_param"] - 1) :
        StrPrefix(attrs[Key("parameter", j)], Len(prefix)) = prefix}}

\* the parameters recorded as {base}{i} for an i below the count n
RecordedAs(attrs, base, n) ==
    {attrs[k] : k \in {Key(base, i) : i \in 0..(n - 1)} \cap DOMAIN attrs}

\* C27: the sample set of add_retrieval records every parameter whose name
\* starts with scaling_ as scaling{i} for an i below n_scaling, which is
\* their number, and every parameter whose name starts with error_ as
\* error{i} for an i below n_error, which is their number; the dictionaries
\* that get_mcmc_spectra hands to the forward model hold none of them
C27_ScalingAndErrorComplete ==
    /\ \A tag \in Tags :
          Exists(store, SamplesPath(tag)) =>
              LET attrs == store[SamplesPath(tag)].attrs IN
              /\ attrs["n_scaling"] = Cardinality(NamedWith(attrs, "scaling_"))
              /\ NamedWith(attrs, "scaling_") \subseteq RecordedAs(attrs, "scaling", attrs["n_scaling"])
              /\ attrs["n_error"] = Cardinality(NamedWith(attrs, "error_"))
              /\ NamedWith(attrs, "error_") \subseteq RecordedAs(attrs, "error", attrs["n_error"])
    /\ (outcome.op = "get_mcmc_spectra" /\ outcome.raised = "none") =>
          LET attrs == store[SamplesPath(outcome.tag)].attrs IN
          \A i \in 1..Len(outcome.value) :
              DOMAIN outcome.value[i]
                  \cap (NamedWith(attrs, "scaling_") \cup NamedWith(attrs, "error_")) = {}

\* the same statement of the error parameters alone
ErrorComplete ==
    /\ \A tag \in Tags :
          Exists(store, SamplesPath(tag)) =>
              LET attrs == store[SamplesPath(tag)].attrs IN
              /\ attrs["n_error"] = Cardinality(NamedWith(attrs, "error_"))
              /\ NamedWith(attrs, "error_") \subseteq RecordedAs(attrs, "error", attrs["n_error"])
    /\ (outcome.op = "get_mcmc_spectra" /\ outcome.raised = "none") =>
          LET attrs == store[SamplesPath(outcome.tag)].attrs IN
          \A i \in 1..Len(outcome.value) :
              DOMAIN outcome.value[i] \cap NamedWith(attrs, "error_") = {}

\* ---------------------------------------------------------------------
\* The documented models of add_isochrones
\* ---------------------------------------------------------------------

\* the provenance that the ingestion functions of the isochrones module
\* write as the attribute model
IsochroneModels == {"manual", "marleau", "sonora", "saumon2008", "baraffe2015"}

\* the completed call of add_isochrones has stored isochrones/{tag}/evolution
\* with a provenance
EvolutionStored ==
    LET path == <<"isochrones", outcome.tag, "evolution">> IN
    /\ outcome.raised = "none"
    /\ Exists(store, path)
    /\ "model" \in DOMAIN store[path].attrs
    /\ store[path].attrs["model"] \in IsochroneModels

\* C28: add_isochrones with the model baraffe or marleau runs an ingestion
\* function of the isochrones module and ends with
\* isochrones/{tag}/evolution stored with a model attribute of the
\* isochrones module
C28_DocumentedModelStored ==
    outcome.op = "add_isochrones" /\ outcome.kind \in {"baraffe", "marleau"}
        => EvolutionStored

\* the same statement of the model marleau alone
MarleauStored ==
    outcome.op = "add_isochrones" /\ outcome.kind = "marleau" => EvolutionStored

\* ---------------------------------------------------------------------
\* The dictionary of magnitudes that the caller passes to add_object
\* ---------------------------------------------------------------------

\* the number of calls that one dictionary is passed to
MaxCalls == 2

\* app_mag items of the caller: the magnitudes are the numbers Num(m)
CallerTuple(filter, m) == MagTuple(filter, Num(m))

CallerList(filter, k) ==
    [filter |-> filter, kind |-> "list", pairs |-> [j \in 1..k |-> <<Num(10 + j), 1>>]]

\* calls with a dictionary of one or two magnitudes, as tuples and as a
\* list, without dereddening, with the dereddening of one filter and with
\* the dereddening of all
AppMagArgs ==
    {ObjectArgsOf(<<>>, <<m>>, <<>>, <<>>, d) :
        m \in {<<CallerTuple("Paranal/NACO.Lp", 11)>>,
               <<CallerTuple("Fake/Filter", 15)>>,
               <<CallerTuple("Fake/Filter", 15), CallerTuple("Paranal/NACO.Lp", 11)>>,
               <<CallerList("Paranal/NACO.Lp", MaxPhot)>>},
        d \in {NoDeredden, DereddenOf({"Paranal/NACO.Lp"}), DereddenAll}}

\* add_object is called once more with the dictionary object of the call
\* before, as that call has left it
AddObjectAgain ==
    /\ pc = "idle"
    /\ handles < MaxHandles
    /\ outcome.op = "add_object"
    /\ outcome.args.app_mag # <<>>
    /\ outcome.calls < MaxCalls
    /\ loc' = [op |-> "add_object", args |-> [outcome.args EXCEPT !.app_mag = outcome.app_mag],
               k |-> 1, before |-> store, base |-> handles,
               passed |-> outcome.passed, calls |-> outcome.calls + 1]
    /\ handles' = handles + 1
    /\ pc' = "object"
    /\ outcome' = [op |-> "none", raised |-> "none"]
    /\ UNCHANGED store

NextAppMag ==
    \/ AddObjectOpen(AppMagArgs)
    \/ AddObjectAgain
    \/ AddObjectNested
    \/ AddObjectNestedReturn
    \/ AddObjectBody

SpecAppMag == Init /\ [][NextAppMag]_vars

\* the photometry that the completed call has stored is the photometry
\* that one call with the dictionary of the caller stores
AsSingleCall ==
    LET single == ObjectStore(outcome.before, [outcome.args EXCEPT !.app_mag = outcome.passed])
    IN  \A i \in 1..Len(outcome.passed[1]) :
            LET path == ObjectPath(outcome.tag, outcome.passed[1][i].filter) IN
            /\ Exists(store, path)
            /\ store[path].data = single.st[path].data

\* C29: add_object leaves every entry of the dictionary app_mag of the
\* caller with the value it had before the call, whatever deredden is, and
\* a call that is made once more with the same dictionary stores the
\* magnitude and the flux of every filter that a single call stores
C29_AppMagNotModified ==
    outcome.op = "add_object" /\ outcome.args.app_mag # <<>> =>
        /\ outcome.app_mag = outcome.args.app_mag
        /\ outcome.calls > 1 /\ outcome.raised = "none" => AsSingleCall

\* the same statement of the calls in which no magnitude given as a tuple
\* is dereddened
UndereddenedAppMagNotModified ==
    (/\ outcome.op = "add_object"
     /\ outcome.args.app_mag # <<>>
     /\ \A i \in 1..Len(outcome.passed[1]) :
           \/ outcome.passed[1][i].kind = "list"
           \/ ExtinctionOf(outcome.args.deredden, outcome.passed[1][i].filter) = <<>>)
        => /\ outcome.app_mag = outcome.args.app_mag
           /\ outcome.calls > 1 /\ outcome.raised = "none" => AsSingleCall

\* ---------------------------------------------------------------------
\* The names of the filters of add_filter
\* ---------------------------------------------------------------------

\* calls with a name of the SVO service, telescope/filter, and with a name
\* of the user without a '/': with a file of two rows, and with a
\* download that yields a curve or nothing
NameArgs ==
    FilterArgsOf({"MKO/J", "MKO"}, {c \in Curves : Len(c) = 2},
                 {c \in Curves : Len(c) = MaxCurve /\ \A i \in 1..Len(c) : c[i][1] = i})

AddFilterOf(args) ==
    /\ pc = "idle"
    /\ \E a \in args :
        LET r == AddFilterStore(store, a) IN
        /\ CanLeak(r)
        /\ store' = r.st
        /\ handles' = Leaked(r)
        /\ outcome' = [op |-> "add_filter", tag |-> a.filter_name, raised |-> r.raised,
                       args |-> a, before |-> store]
    /\ UNCHANGED <<pc, loc>>

NextNames == AddFilterOf(NameArgs)

SpecNames == Init /\ [][NextNames]_vars

\* the dataset of the filter of the completed call, with its det_type
FilterStored ==
    /\ HasFilter(store, outcome.tag)
    /\ "det_type" \in DOMAIN store[FilterPath(outcome.tag)].attrs

\* C30: a call of add_filter that returns normally leaves the dataset of
\* the filter, with the attribute det_type, at filters/{filter_name}; a
\* call with a file and a name without a '/' is such a call
C30_FilterStoredOnReturn ==
    outcome.op = "add_filter" =>
        /\ outcome.raised = "none" => FilterStored
        /\ Len(Split(outcome.tag)) = 1 /\ outcome.args.filename # <<>>
               => outcome.raised = "none" /\ FilterStored

\* the same statement of the calls with a name telescope/filter whose file
\* or download holds a curve
CurveStoredOnReturn ==
    (/\ outcome.op = "add_filter"
     /\ Len(Split(outcome.tag)) = 2
     /\ outcome.args.filename # <<>> \/ outcome.args.download.curve # <<>>)
        => outcome.raised = "none" /\ FilterStored

====
